---- MODULE Spec2Model ----
(***************************************************************************)
(* Issue synchronisation pipeline of the Jira ingestion backend.           *)
(*                                                                         *)
(*   SpecFetch : one call of fetch_issues_for_project against a provider   *)
(*               that may answer each request in any way (the retry loop). *)
(*   Spec      : one run of process_all_issues against scripted project    *)
(*               endpoints (pagination, normalisation, publishing).        *)
(***************************************************************************)
EXTENDS Integers, Sequences, FiniteSets, TLC

VARIABLES
    \* ---- fetch_issues_for_project (one call) ----
    fpc,                  \* "idle" | "call" | "loop" | "returned" | "raised"
    creds_ok,             \* base_url and auth are both truthy
    attempt,              \* local attempt
    rate_limit_attempts,  \* local rate_limit_attempts
    trace,                \* kind and status of the outcome of each request sent so far
    last_outcome,         \* the outcome of the last request
    backoffs,             \* delays slept after retryable failures, in order
    last_sleep,           \* the last asyncio.sleep of the retry loop
    fret,                 \* what the call returned, and by which return statement
    \* ---- process_all_issues (one run) ----
    pc,                   \* position in process_all_issues
    user_id_valid,        \* ObjectId(user_id) succeeds
    user_document,        \* what db_collection.find_one returns
    sqs_client_ok,        \* utils.sqs._sqs_client is set
    provider,             \* the provider once contacted: its listing and one issue
                          \* endpoint per project
    team_field_id,
    projects_details,
    pidx,                 \* index of project_detail in projects_details
    startAt,
    total_for_project,
    issues,               \* the page being processed
    iidx,                 \* index of issue in issues
    cursor,               \* requests the current project's endpoint has answered
    total_processed_and_sent,
    total_failed_to_send,
    page_calls,           \* the calls of fetch_issues_for_project, in order
    send_calls,           \* the calls of send_issue_to_sqs, in order
    queue,                \* message bodies accepted by the queue, in order
    fetched_with_fields,  \* issues received so far that have a fields container
    normalize_errors,     \* issues whose normalisation raised
    halted,               \* projects whose loop the except clause stopped
    result,               \* what process_all_issues returned
    \* ---- fetch_all_project_details (one call) ----
    lpc,                  \* "idle" | "credentials" | "page" | "returned"
    page_start_at,
    total_projects,
    all_project_details,
    list_calls,           \* the calls of fetch_projects, in order
    lret,                 \* what fetch_all_project_details returned
    \* ---- the request limiter shared by concurrent callers ----
    clock,                \* the event loop's time, in tenths of a second
    last_request_time,    \* module-level _last_request_time (NoTime for None)
    lim_pc,               \* per caller: "ready" | "sleeping" | "in_flight" | "done"
    wake,                 \* per caller: when its asyncio.sleep is due
    sent_by,              \* per caller: requests sent so far
    request_starts,       \* caller and time of every request started, in order
    \* ---- the concurrency gate shared by concurrent sync runs ----
    runs_at,              \* how many sync runs are at each position
    semaphore_value,      \* free slots of the module-level _semaphore
    session_open,         \* the module-level _session exists and is not closed
    \* ---- normalisation of one raw issue ----
    raw_fields,           \* issue["fields"]
    raw_changelog,        \* issue.get("changelog", {})
    asked_status,         \* the status get_days_in_current_status is asked about
    now_utc,              \* datetime.now(timezone.utc), in hours
    called,               \* which of the three operations have been applied
    days_result,          \* what get_days_in_current_status returned
    log_result,           \* what status_transition_log returned
    record,               \* the record of lines 570-594, or that building it raised
    norm_team_field_id,   \* team_field_id of the run that normalises the issue
    later_utc,            \* datetime.now(timezone.utc) of the second normalisation
    record_again,         \* the record of a second normalisation of the same issue
    \* ---- one webhook request (main.py jira_webhook, main2.py handle_webhook) ----
    wpc,                  \* position in the endpoint and the handler
    w_entry,              \* "endpoint": a POST /jira-webhook;  "direct": a call of handle_webhook
    w_data,               \* the request body, by its shape
    w_user,               \* what find_one gives for the domain of the payload
    http_status,          \* status the endpoint answered with; 0 while it has not
    http_body_status,     \* the "status" of the answered body; "" when it has none
    w_status,             \* the "status" of the record handle_webhook returned
    w_raised,             \* the exception that left the endpoint, "" when none
    w_publishes,          \* send_message calls made for this webhook
    w_provider_calls,     \* requests made to the provider for this webhook
    \* ---- the scoring consumer (lambdaopenai/hello_world/app.py) ----
    cpc,                  \* "ready" | "records" | "done" | "idle"
    c_invocations,        \* invocations of lambda_handler started so far
    c_batch,              \* event["Records"] of the current invocation
    c_idx,                \* index of the record the loop of line 344 is at
    batch_item_failures,  \* itemIdentifiers collected by the current invocation
    successful_count,     \* successful_count of the current invocation
    c_results,            \* result["success"] of each record processed by this invocation
    c_response,           \* what the current invocation returned
    store,                \* the documents of the collection, in insertion order
    c_stored,             \* per message id, how often it was processed with success (capped)
    c_last,               \* per issue key, the id of the message stored last, "" when none
    bpc,                  \* decorated fetch_projects: "idle", "attempt", "sleep", "done"
    b_tries,              \* calls of the undecorated fetch_projects made so far
    b_attempts,           \* what the provider answered to each of them
    b_waits,              \* the upper bound of each sleep between two calls, in seconds
    b_result,             \* what the decorated call gave back: a page or an exception
    scpc,                 \* process_single_record: "idle", "parse", "ai", "store", "done"
    sc_record,            \* the queue record being processed
    sc_ai_attempts,       \* the outcome of each call of the scoring API
    sc_store_attempts,    \* the outcome of each update_one
    sc_written,           \* the documents written to the store by this record
    sc_result,            \* result['success'] and result['error']
    sc_done,              \* the records processed before this one, with their success
    rpc,                  \* per concurrent sync run, where it is
    pages_left,           \* per run, the page calls its project still needs
    session,              \* per run, the session its page call got from get_session (0: none)
    shared_session,       \* the module-level _session: an index into sessions, 0 for None
    sessions,             \* every ClientSession created: whose auth it has, whether closed
    requests              \* the requests of the runs, in order

fetchVars == <<fpc, creds_ok, attempt, rate_limit_attempts, trace, last_outcome,
               backoffs, last_sleep, fret>>

inputs == <<user_id_valid, user_document, sqs_client_ok>>

syncVars == <<pc, inputs, provider, team_field_id,
              projects_details, pidx, startAt, total_for_project, issues, iidx, cursor,
              total_processed_and_sent, total_failed_to_send, page_calls, send_calls,
              queue, fetched_with_fields, normalize_errors, halted, result>>

listVars == <<lpc, page_start_at, total_projects, all_project_details, list_calls, lret>>

\* The variables of the other entry points, which a sync run and a single
\* fetch leave alone.
limVars == <<clock, last_request_time, lim_pc, wake, sent_by, request_starts>>

gateVars == <<runs_at, semaphore_value, session_open>>

normVars == <<raw_fields, raw_changelog, asked_status, now_utc, called, days_result,
              log_result, record, norm_team_field_id, later_utc, record_again>>

webVars == <<wpc, w_entry, w_data, w_user, http_status, http_body_status, w_status,
             w_raised, w_publishes, w_provider_calls>>

consVars == <<cpc, c_invocations, c_batch, c_idx, batch_item_failures, successful_count,
              c_results, c_response, store, c_stored, c_last>>

backVars == <<bpc, b_tries, b_attempts, b_waits, b_result>>

sharedVars == <<rpc, pages_left, session, shared_session, sessions, requests>>

scoreVars == <<scpc, sc_record, sc_ai_attempts, sc_store_attempts, sc_written, sc_result,
               sc_done>>

extVars == <<webVars, consVars, backVars, scoreVars, sharedVars>>

auxVars == <<listVars, limVars, gateVars, normVars, extVars>>

vars == <<fetchVars, syncVars, auxVars>>

-----------------------------------------------------------------------------
(* class Config *)
MAX_RETRIES == 3
RATE_LIMIT_MAX_RETRIES == 10
BASE_RETRY_DELAY == 1
MAX_RESULTS_PER_REQUEST == 50

-----------------------------------------------------------------------------
(* int(response.headers.get("Retry-After", "5")): a header is a sequence of *)
(* characters; int() accepts an optional sign followed by decimal digits    *)
(* and raises ValueError on anything else.                                  *)

DigitChars == <<"0", "1", "2", "3", "4", "5", "6", "7", "8", "9">>

IsDigit(c) == \E i \in 1..10 : DigitChars[i] = c

DigitVal(c) == (CHOOSE i \in 1..10 : DigitChars[i] = c) - 1

RECURSIVE DigitsValue(_, _)
DigitsValue(s, acc) ==
    IF s = <<>> THEN acc ELSE DigitsValue(Tail(s), 10 * acc + DigitVal(Head(s)))

IntParse(s) ==
    LET signed == s # <<>> /\ Head(s) \in {"+", "-"}
        body   == IF signed THEN Tail(s) ELSE s
    IN  IF body = <<>> \/ \E i \in 1..Len(body) : ~IsDigit(body[i])
        THEN [ok |-> FALSE, val |-> 0]
        ELSE [ok |-> TRUE,
              val |-> IF signed /\ Head(s) = "-"
                      THEN 0 - DigitsValue(body, 0) ELSE DigitsValue(body, 0)]

NoHeader == [present |-> FALSE, value |-> <<>>]
Header(chars) == [present |-> TRUE, value |-> chars]

\* response.headers.get("Retry-After", "5")
RetryAfterText(h) == IF h.present THEN h.value ELSE <<"5">>

-----------------------------------------------------------------------------
(* Outcomes of one session.get: a response, or an exception.               *)

EmptyResult == [issues |-> <<>>, total |-> 0]

Response(status, hdr, body) ==
    [kind |-> "response", status |-> status, retry_after |-> hdr, body |-> body,
     json_ok |-> TRUE]
Raised(exc) ==
    [kind |-> exc, status |-> 0, retry_after |-> NoHeader, body |-> EmptyResult,
     json_ok |-> TRUE]

\* A response whose body response.json() cannot decode.
NotJson(status) ==
    [Response(status, NoHeader, EmptyResult) EXCEPT !.json_ok = FALSE]

ClientConnectionError == Raised("ClientConnectionError")
TimeoutError == Raised("TimeoutError")
OtherException == Raised("Exception")
NoOutcome == Raised("none")

\* What the trace keeps of an outcome: its kind, its status, whether int()
\* accepts its Retry-After header and whether its body decodes.
Label(o) ==
    [kind |-> o.kind, status |-> o.status,
     retry_after_ok |-> IntParse(RetryAfterText(o.retry_after)).ok,
     json_ok |-> o.json_ok]

-----------------------------------------------------------------------------
(* One iteration of the retry loop of fetch_issues_for_project.  The result *)
(* names how the iteration ends: "continue" (back to the while test),      *)
(* "break" (to the return of the empty result), "return" (the 200 payload) *)
(* or "raise" (an exception leaving the function).                         *)

Step(next, att, rl, sleep, value) ==
    [next |-> next, attempt |-> att, rate_limit_attempts |-> rl,
     sleep |-> sleep, value |-> value]

NoSleep == [why |-> "none", delay |-> 0]

RetryDelayConstant(att) == BASE_RETRY_DELAY

\* retry_delay = config.BASE_RETRY_DELAY * (2 ** (attempt - 1))
RetryDelay(att) == BASE_RETRY_DELAY * 2 ^ (att - 1)

\* attempt += 1; sleep and loop again while attempt < MAX_RETRIES, else break
\* (the >= 500 branch and the three except clauses are the same code).
OnRetryable(att, rl) ==
    LET a == att + 1
    IN  IF a < MAX_RETRIES
        THEN Step("continue", a, rl, [why |-> "backoff", delay |-> RetryDelay(a)], EmptyResult)
        ELSE Step("break", a, rl, NoSleep, EmptyResult)

OnClientErrorRetried(att, rl) == OnRetryable(att, rl)

\* elif response.status >= 400: log and break
OnClientError(att, rl) == Step("break", att, rl, NoSleep, EmptyResult)

OnExceptionPropagated(att, rl) == Step("raise", att, rl, NoSleep, EmptyResult)

\* except Exception: any other exception raised inside the try block
OnException(att, rl) == OnRetryable(att, rl)

\* The variant that allows one more retried 429 before giving up.
OnRateLimitedOnceMore(att, rl, hdr) ==
    LET r == rl + 1
        p == IntParse(RetryAfterText(hdr))
    IN  IF r > RATE_LIMIT_MAX_RETRIES + 1
        THEN Step("break", att, r, NoSleep, EmptyResult)
        ELSE IF p.ok
             THEN Step("continue", att, r, [why |-> "retry_after", delay |-> p.val], EmptyResult)
             ELSE OnException(att, r)

\* if response.status == 429: ...
OnRateLimited(att, rl, hdr) ==
    LET r == rl + 1
        p == IntParse(RetryAfterText(hdr))
    IN  IF r > RATE_LIMIT_MAX_RETRIES
        THEN Step("break", att, r, NoSleep, EmptyResult)
        ELSE IF p.ok
             THEN Step("continue", att, r, [why |-> "retry_after", delay |-> p.val], EmptyResult)
             ELSE OnException(att, r)      \* ValueError from int()

LoopIteration(att, rl, o) ==
    IF o.kind = "response"
    THEN IF o.status = 429 THEN OnRateLimited(att, rl, o.retry_after)
         ELSE IF o.status >= 500 THEN OnRetryable(att, rl)
         ELSE IF o.status >= 400 THEN OnClientError(att, rl)
         ELSE IF o.status = 200
              THEN IF o.json_ok THEN Step("return", att, rl, NoSleep, o.body)
                   ELSE OnException(att, rl)     \* response.json() raised
         ELSE Step("break", att, rl, NoSleep, EmptyResult)
    ELSE IF o.kind \in {"ClientConnectionError", "TimeoutError"}
         THEN OnRetryable(att, rl)
         ELSE OnException(att, rl)

\* How the loop goes on after an iteration: "continue" leads back to the test
\* while attempt < config.MAX_RETRIES, whose failure falls to the final return.
LoopExit(s) ==
    IF s.next = "continue" /\ s.attempt < MAX_RETRIES THEN "loop"
    ELSE IF s.next = "return" THEN "payload"
    ELSE IF s.next = "raise" THEN "raise"
    ELSE "empty"

-----------------------------------------------------------------------------
(* SpecFetch: one call, the provider answering each request as it likes.    *)

SamplePage == [issues |-> <<[key |-> 1]>>, total |-> 1]

RetryAfterHeaders == {NoHeader, Header(<<"2">>), Header(<<"W", "e", "d">>)}

FetchOutcomes ==
    {Response(200, NoHeader, SamplePage), Response(200, NoHeader, EmptyResult),
     Response(204, NoHeader, EmptyResult),
     Response(400, NoHeader, EmptyResult), Response(404, NoHeader, EmptyResult),
     Response(499, NoHeader, EmptyResult),
     Response(500, NoHeader, EmptyResult), NotJson(200),
     ClientConnectionError, TimeoutError, OtherException}
    \cup {Response(429, h, EmptyResult) : h \in RetryAfterHeaders}

FetchInit ==
    /\ fpc = "call"
    /\ creds_ok \in BOOLEAN
    /\ attempt = 0
    /\ rate_limit_attempts = 0
    /\ trace = <<>>
    /\ last_outcome = NoOutcome
    /\ backoffs = <<>>
    /\ last_sleep = NoSleep
    /\ fret = [via |-> "none", value |-> EmptyResult]

\* if not base_url or not auth: return {"issues": [], "total": 0}
FetchCall ==
    /\ fpc = "call"
    /\ IF creds_ok
       THEN fpc' = "loop" /\ fret' = fret
       ELSE fpc' = "returned" /\ fret' = [via |-> "no_credentials", value |-> EmptyResult]
    /\ UNCHANGED <<creds_ok, attempt, rate_limit_attempts, trace, last_outcome,
                   backoffs, last_sleep, syncVars, auxVars>>

\* while attempt < config.MAX_RETRIES: one request and the handling of its outcome
FetchRequest(o) ==
    /\ fpc = "loop"
    /\ LET s == LoopIteration(attempt, rate_limit_attempts, o)
           exit == LoopExit(s)
       IN  /\ attempt' = s.attempt
           /\ rate_limit_attempts' = s.rate_limit_attempts
           /\ trace' = Append(trace, Label(o))
           /\ last_outcome' = o
           /\ last_sleep' = s.sleep
           /\ backoffs' = IF s.sleep.why = "backoff"
                          THEN Append(backoffs, s.sleep.delay) ELSE backoffs
           /\ fpc' = IF exit = "loop" THEN "loop"
                     ELSE IF exit = "raise" THEN "raised" ELSE "returned"
           /\ fret' = IF exit = "payload" THEN [via |-> "payload", value |-> s.value]
                      ELSE IF exit = "empty" THEN [via |-> "empty", value |-> EmptyResult]
                      ELSE fret
    /\ UNCHANGED <<creds_ok, syncVars, auxVars>>

FetchNext ==
    \/ FetchCall
    \/ \E o \in FetchOutcomes : FetchRequest(o)

FetchIdle ==
    /\ fpc = "idle"
    /\ creds_ok = TRUE
    /\ attempt = 0
    /\ rate_limit_attempts = 0
    /\ trace = <<>>
    /\ last_outcome = NoOutcome
    /\ backoffs = <<>>
    /\ last_sleep = NoSleep
    /\ fret = [via |-> "none", value |-> EmptyResult]

-----------------------------------------------------------------------------
(* fetch_issues_for_project as process_all_issues calls it: the whole call, *)
(* its requests answered by the project's endpoint from `cur` on.  An       *)
(* endpoint is a script of outcomes; once the script is used up it answers  *)
(* 200 with no issues.                                                      *)

Served(script, n) ==
    IF n <= Len(script) THEN script[n] ELSE Response(200, NoHeader, EmptyResult)

RECURSIVE RunRetryLoop(_, _, _, _)
RunRetryLoop(script, cur, att, rl) ==
    LET s == LoopIteration(att, rl, Served(script, cur + 1))
        exit == LoopExit(s)
    IN  IF exit = "loop"
        THEN RunRetryLoop(script, cur + 1, s.attempt, s.rate_limit_attempts)
        ELSE [exit |-> exit, cursor |-> cur + 1,
              value |-> IF exit = "payload" THEN s.value ELSE EmptyResult]

fetch_issues_for_project(base_url, script, cur) ==
    IF base_url = <<>>
    THEN [exit |-> "empty", cursor |-> cur, value |-> EmptyResult]
    ELSE RunRetryLoop(script, cur, 0, 0)

-----------------------------------------------------------------------------
(* Credentials: the user document and what lines 419-438 make of it.        *)

Absent == [t |-> "absent", v |-> <<>>]
Null == [t |-> "null", v |-> <<>>]
Str(chars) == [t |-> "str", v |-> chars]

NoDocument ==
    [found |-> FALSE, jira_email |-> Absent, jira_api_key |-> Absent, jira_domain |-> Absent]
Document(e, k, d) ==
    [found |-> TRUE, jira_email |-> e, jira_api_key |-> k, jira_domain |-> d]

\* str.rstrip('/')
RECURSIVE RStrip(_)
RStrip(s) ==
    IF s # <<>> /\ s[Len(s)] = "/" THEN RStrip(SubSeq(s, 1, Len(s) - 1)) ELSE s

\* BasicAuth(login, password) raises ValueError for None and for ":" in login.
BasicAuthRaises(login, password) ==
    \/ login.t = "null"
    \/ password.t = "null"
    \/ \E i \in 1..Len(login.v) : login.v[i] = ":"

\* Lines 419-434: ok is FALSE when the try block raised (the function returns None).
LoadCredentials(uid_valid, doc) ==
    IF \/ ~uid_valid                                   \* ObjectId(user_id) raised
       \/ ~doc.found                                   \* None['jira_email']
       \/ doc.jira_email.t = "absent"                  \* KeyError
       \/ doc.jira_api_key.t = "absent"
       \/ BasicAuthRaises(doc.jira_email, doc.jira_api_key)
       \/ doc.jira_domain.t \in {"absent", "null"}     \* KeyError, None.rstrip
    THEN [ok |-> FALSE, base_url |-> <<>>]
    ELSE [ok |-> TRUE, base_url |-> RStrip(doc.jira_domain.v)]

\* fetch_all_project_details as line 453 sees it: falsy (None when its own
\* credential lookup fails, [] when the listing fails), else a {key, name}
\* record per project.
fetch_all_project_details(uid_valid, doc, prov) ==
    IF ~LoadCredentials(uid_valid, doc).ok \/ ~prov.listing_ok
    THEN <<>>
    ELSE [i \in 1..Len(prov.projects) |-> [key |-> i, name |-> i]]

-----------------------------------------------------------------------------
(* Issues and their normalisation (lines 494-591).  A JSON value is kept by *)
(* its shape: "absent", "null", "dict", "list", "str".                      *)

Issue(key, fields, assignee, worklog, labels, changelog) ==
    [key |-> key, fields |-> fields, assignee |-> assignee, worklog |-> worklog,
     labels |-> labels, changelog |-> changelog]

GoodIssue == Issue(0, "dict", "dict", "dict", "list", "dict")
NoFieldsIssue == Issue(0, "absent", "dict", "dict", "list", "dict")
NullAssigneeIssue == Issue(0, "dict", "null", "absent", "str", "absent")
NullWorklogIssue == Issue(0, "dict", "dict", "null", "list", "dict")
NullChangelogIssue == Issue(0, "dict", "dict", "dict", "list", "null")

\* if not fields: continue
HasFields(issue) == issue.fields \in {"dict", "list", "str"}

\* Whether reading the issue raises before the record is built:
\*   fields.get(...) on a value that is not a dict,
\*   fields.get("worklog", {}).get("total", 0) on a worklog that is not a dict,
\*   changelog.get("histories", []) in status_transition_log on a changelog
\*   that is not a dict.
NormalizeRaises(issue) ==
    \/ issue.fields # "dict"
    \/ issue.worklog \notin {"absent", "dict"}
    \/ issue.changelog \notin {"absent", "dict"}

\* The record of lines 570-591 (the fields this model follows).
Normalize(issue, project_name) ==
    [key |-> issue.key,
     project_name |-> project_name,
     assignee |-> IF issue.assignee = "dict" THEN "displayName" ELSE "Unassigned",
     worklog_enterie |-> IF issue.worklog = "dict" THEN "total" ELSE "0",
     labels |-> IF issue.labels = "list" THEN "labels" ELSE "[]",
     status_transition_log |-> IF issue.changelog = "dict" THEN "first" ELSE "None"]

-----------------------------------------------------------------------------
(* utils/sqs.py                                                             *)

\* async def send_issue_to_sqs(issue_data): the number of parameters
SendParams == 1

SendOutcomes == {"sent", "dumps_error", "ClientError", "Exception"}

\* The body of send_issue_to_sqs: what it returns and how many send_message
\* calls it made, `outcome` being what json.dumps and send_message do.
send_issue_to_sqs(client_ok, outcome) ==
    IF ~client_ok THEN [raised |-> FALSE, ret |-> FALSE, sends |-> 0]
    ELSE IF outcome = "dumps_error" THEN [raised |-> FALSE, ret |-> FALSE, sends |-> 0]
    ELSE IF outcome = "sent" THEN [raised |-> FALSE, ret |-> TRUE, sends |-> 1]
    ELSE [raised |-> FALSE, ret |-> FALSE, sends |-> 1]

\* A call send_issue_to_sqs(*args): TypeError unless the arguments fit the
\* parameter list.
CallSend(args, client_ok, outcome) ==
    IF Len(args) # SendParams
    THEN [raised |-> TRUE, ret |-> FALSE, sends |-> 0]
    ELSE send_issue_to_sqs(client_ok, outcome)

-----------------------------------------------------------------------------
(* The provider of a run: whether the project listing answers, and one      *)
(* scripted issue endpoint per project.                                     *)

MaxProjects == 2

\* A 200 page of n issues shaped like `shape`, keyed first+1 .. first+n.
Page(n, total, shape, first) ==
    Response(200, NoHeader,
             [issues |-> [i \in 1..n |-> [shape EXCEPT !.key = first + i]],
              total |-> total])

MixedPage(shapes, total) ==
    Response(200, NoHeader,
             [issues |-> [i \in 1..Len(shapes) |-> [shapes[i] EXCEPT !.key = i]],
              total |-> total])

ServerError == Response(500, NoHeader, EmptyResult)

ThreePages(shape) ==
    <<Page(50, 120, shape, 0), Page(50, 120, shape, 50), Page(20, 120, shape, 100)>>
FailsEntirely == <<ServerError, ServerError, ServerError>>
FiveIssues == <<Page(5, 5, GoodIssue, 0)>>

\* The issue endpoints a project can have, by name, and the script of each.
Endpoints ==
    {"three_pages", "three_pages_no_fields", "fails_entirely", "five_issues",
     "exceptions", "not_found", "retried_then_page", "null_assignee",
     "null_worklog", "null_changelog", "page_then_failure", "empty_first_page",
     "changing_total", "growing_total"}

Script(endpoint) ==
    CASE endpoint = "three_pages" -> ThreePages(GoodIssue)
      [] endpoint = "three_pages_no_fields" -> ThreePages(NoFieldsIssue)
      [] endpoint = "fails_entirely" -> FailsEntirely
      [] endpoint = "five_issues" -> FiveIssues
      [] endpoint = "exceptions" -> <<ClientConnectionError, TimeoutError, OtherException>>
      [] endpoint = "not_found" -> <<Response(404, NoHeader, EmptyResult)>>
      [] endpoint = "retried_then_page" ->
            <<ServerError, Response(429, NoHeader, EmptyResult),
              Page(2, 2, NoFieldsIssue, 0)>>
      [] endpoint = "null_assignee" ->
            <<MixedPage(<<NoFieldsIssue, NullAssigneeIssue, GoodIssue>>, 3)>>
      [] endpoint = "null_worklog" ->
            <<MixedPage(<<NoFieldsIssue, NullWorklogIssue, GoodIssue>>, 3)>>
      [] endpoint = "null_changelog" ->
            <<MixedPage(<<NullChangelogIssue, NoFieldsIssue>>, 2)>>
      [] endpoint = "page_then_failure" ->
            <<Page(2, 4, NoFieldsIssue, 0), ServerError, ServerError, ServerError>>
      [] endpoint = "empty_first_page" -> <<Page(0, 50, NoFieldsIssue, 0)>>
      [] endpoint = "growing_total" ->
            <<Page(1, 2, NoFieldsIssue, 0), Page(1, 3, NoFieldsIssue, 1),
              Page(1, 3, NoFieldsIssue, 2)>>
      [] endpoint = "changing_total" ->
            <<Page(2, 4, NoFieldsIssue, 0), Page(1, 3, NoFieldsIssue, 2),
              Page(1, 4, NoFieldsIssue, 3)>>

\* The provider before the run has contacted it; as an answer, a listing
\* that fails.
NotContacted == [listing_ok |-> FALSE, projects |-> <<>>]

Providers ==
    {NotContacted}
    \cup {[listing_ok |-> TRUE, projects |-> ps] :
            ps \in UNION {[1..n -> Endpoints] : n \in 0..MaxProjects}}

UserDocuments ==
    {NoDocument,
     Document(Str(<<"a">>), Str(<<"k">>), Str(<<"d", "/">>)),
     Document(Str(<<"a">>), Absent, Str(<<"d">>)),
     Document(Null, Str(<<"k">>), Str(<<"d">>)),
     Document(Str(<<"a">>), Str(<<"k">>), Null),
     Document(Str(<<"a">>), Str(<<"k">>), Str(<<>>)),
     Document(Str(<<"a">>), Str(<<"k">>), Str(<<"/">>))}

Running == [t |-> "running", sent |-> 0, failed |-> 0]
ReturnedNone == [t |-> "None", sent |-> 0, failed |-> 0]
ReturnedPair(sent, failed) == [t |-> "pair", sent |-> sent, failed |-> failed]

-----------------------------------------------------------------------------
(* process_all_issues                                                       *)

SyncInit ==
    /\ pc = "start"
    /\ user_id_valid \in BOOLEAN
    /\ user_document \in UserDocuments
    /\ sqs_client_ok \in BOOLEAN
    /\ provider = NotContacted
    /\ team_field_id = "None"
    /\ projects_details = <<>>
    /\ pidx = 0
    /\ startAt = 0
    /\ total_for_project = 0
    /\ issues = <<>>
    /\ iidx = 0
    /\ cursor = 0
    /\ total_processed_and_sent = 0
    /\ total_failed_to_send = 0
    /\ page_calls = <<>>
    /\ send_calls = <<>>
    /\ queue = <<>>
    /\ fetched_with_fields = 0
    /\ normalize_errors = 0
    /\ halted = {}
    /\ result = Running

base_url == LoadCredentials(user_id_valid, user_document).base_url

\* Lines 419-438: None when the credentials cannot be built, (0, 0) when
\* base_url is empty.
Start ==
    /\ pc = "start"
    /\ LET c == LoadCredentials(user_id_valid, user_document)
       IN  IF ~c.ok THEN pc' = "done" /\ result' = ReturnedNone
           ELSE IF c.base_url = <<>> THEN pc' = "done" /\ result' = ReturnedPair(0, 0)
           ELSE pc' = "team_field" /\ result' = result
    /\ UNCHANGED <<auxVars, fetchVars, inputs, provider, team_field_id, projects_details, pidx,
                   startAt, total_for_project, issues, iidx, cursor,
                   total_processed_and_sent, total_failed_to_send, page_calls,
                   send_calls, queue, fetched_with_fields, normalize_errors, halted>>

\* Lines 445-448: get_team_field_id returns an id or None and never raises.
GetTeamFieldId(id) ==
    /\ pc = "team_field"
    /\ team_field_id' = id
    /\ pc' = "projects"
    /\ UNCHANGED <<auxVars, fetchVars, inputs, provider, projects_details, pidx, startAt,
                   total_for_project, issues,
                   iidx, cursor, total_processed_and_sent, total_failed_to_send,
                   page_calls, send_calls, queue, fetched_with_fields,
                   normalize_errors, halted, result>>

\* Lines 451-459: the project list, from the provider `prov` that answers
\* the listing; (0, 0) when the list is empty.
FetchProjects ==
    /\ pc = "projects"
    /\ \E prov \in Providers :
          /\ provider' = prov
          /\ projects_details' =
                 fetch_all_project_details(user_id_valid, user_document, prov)
    /\ IF projects_details' = <<>>
       THEN pc' = "done" /\ result' = ReturnedPair(0, 0) /\ pidx' = pidx
       ELSE pc' = "project" /\ result' = result /\ pidx' = 1
    /\ UNCHANGED <<auxVars, fetchVars, inputs, team_field_id, startAt, total_for_project,
                   issues, iidx, cursor, total_processed_and_sent,
                   total_failed_to_send, page_calls, send_calls, queue,
                   fetched_with_fields, normalize_errors, halted>>

\* Lines 462-476: the next project_detail of the for loop.
NextProject ==
    /\ pc = "project"
    /\ pidx <= Len(projects_details)
    /\ startAt' = 0
    /\ cursor' = 0
    /\ issues' = <<>>
    /\ iidx' = 0
    /\ pc' = "page"
    /\ UNCHANGED <<auxVars, fetchVars, inputs, provider, team_field_id, projects_details, pidx,
                   total_for_project,
                   total_processed_and_sent, total_failed_to_send, page_calls,
                   send_calls, queue, fetched_with_fields, normalize_errors, halted,
                   result>>

\* if not issues: break.  Its variant keeps the loop going.
PageNeverEndsProject(got) == FALSE

PageEndsProject(got) == got = <<>>

\* Lines 481-489: one page call; an empty page ends the project, an exception
\* is caught at line 610 and ends it too.
FetchPage ==
    /\ pc = "page"
    /\ LET script == Script(provider.projects[projects_details[pidx].key])
           r == fetch_issues_for_project(base_url, script, cursor)
           got == r.value.issues
       IN  /\ cursor' = r.cursor
           /\ page_calls' = Append(page_calls,
                  [project |-> pidx, startAt |-> startAt,
                   maxResults |-> MAX_RESULTS_PER_REQUEST,
                   exit |-> r.exit, got |-> Len(got), total |-> r.value.total])
           /\ IF r.exit = "raise"
              THEN /\ halted' = halted \cup {pidx}
                   /\ pc' = "project" /\ pidx' = pidx + 1
                   /\ UNCHANGED <<issues, iidx, total_for_project, fetched_with_fields>>
              ELSE IF PageEndsProject(got)
              THEN /\ pc' = "project" /\ pidx' = pidx + 1
                   /\ issues' = got /\ total_for_project' = r.value.total
                   /\ UNCHANGED <<iidx, fetched_with_fields, halted>>
              ELSE /\ pc' = "issue" /\ pidx' = pidx
                   /\ issues' = got /\ total_for_project' = r.value.total
                   /\ iidx' = 1
                   /\ fetched_with_fields' = fetched_with_fields
                        + Cardinality({i \in 1..Len(got) : HasFields(got[i])})
                   /\ halted' = halted
    /\ UNCHANGED <<auxVars, fetchVars, inputs, provider, team_field_id, projects_details, startAt,
                   total_processed_and_sent, total_failed_to_send, send_calls, queue,
                   normalize_errors, result>>

\* Lines 491-603: one issue of the page.  An issue without fields is skipped;
\* an exception while the record is built or published is caught at line 610
\* and ends the project.
ProcessIssue(outcome) ==
    /\ pc = "issue"
    /\ iidx <= Len(issues)
    \* what the queue does matters only to an issue that is published
    /\ (HasFields(issues[iidx]) /\ ~NormalizeRaises(issues[iidx])) \/ outcome = "sent"
    /\ LET issue == issues[iidx]
           data == Normalize(issue, projects_details[pidx].name)
           sent == CallSend(<<data, "email">>, sqs_client_ok, outcome)
       IN  IF ~HasFields(issue)
           THEN /\ iidx' = iidx + 1
                /\ UNCHANGED <<pc, pidx, total_processed_and_sent, total_failed_to_send,
                               send_calls, queue, normalize_errors, halted>>
           ELSE IF NormalizeRaises(issue)
           THEN /\ normalize_errors' = normalize_errors + 1
                /\ halted' = halted \cup {pidx}
                /\ pc' = "project" /\ pidx' = pidx + 1
                /\ UNCHANGED <<iidx, total_processed_and_sent, total_failed_to_send,
                               send_calls, queue>>
           ELSE /\ send_calls' = Append(send_calls,
                       [project |-> pidx, key |-> issue.key,
                        outcome |-> IF sent.raised THEN "not_reached" ELSE outcome,
                        raised |-> sent.raised, ret |-> sent.ret,
                        sends |-> sent.sends])
                /\ queue' = IF ~sent.raised /\ sent.ret THEN Append(queue, data) ELSE queue
                /\ normalize_errors' = normalize_errors
                /\ IF sent.raised
                   THEN /\ halted' = halted \cup {pidx}
                        /\ pc' = "project" /\ pidx' = pidx + 1
                        /\ UNCHANGED <<iidx, total_processed_and_sent, total_failed_to_send>>
                   ELSE /\ total_processed_and_sent' =
                              total_processed_and_sent + (IF sent.ret THEN 1 ELSE 0)
                        /\ total_failed_to_send' =
                              total_failed_to_send + (IF sent.ret THEN 0 ELSE 1)
                        /\ iidx' = iidx + 1
                        /\ UNCHANGED <<pc, pidx, halted>>
    /\ UNCHANGED <<auxVars, fetchVars, inputs, provider, team_field_id, projects_details, startAt, total_for_project,
                   issues, cursor, page_calls, fetched_with_fields, result>>

\* The variant that never takes the walk of a project as complete.
NeverReachedTotal(start, total) == FALSE

\* Line 606: if startAt >= total_for_project: break
ReachedTotal(start, total) == start >= total

\* Lines 605-608: after the last issue of the page.
EndPage ==
    /\ pc = "issue"
    /\ iidx > Len(issues)
    /\ startAt' = startAt + Len(issues)
    /\ IF ReachedTotal(startAt', total_for_project)
       THEN pc' = "project" /\ pidx' = pidx + 1
       ELSE pc' = "page" /\ pidx' = pidx
    /\ UNCHANGED <<auxVars, fetchVars, inputs, provider, team_field_id, projects_details,
                   total_for_project, issues,
                   iidx, cursor, total_processed_and_sent, total_failed_to_send,
                   page_calls, send_calls, queue, fetched_with_fields,
                   normalize_errors, halted, result>>

\* Lines 616-617: the for loop is over.
Return ==
    /\ pc = "project"
    /\ pidx > Len(projects_details)
    /\ result' = ReturnedPair(total_processed_and_sent, total_failed_to_send)
    /\ pc' = "done"
    /\ UNCHANGED <<auxVars, fetchVars, inputs, provider, team_field_id, projects_details, pidx,
                   startAt, total_for_project, issues, iidx, cursor,
                   total_processed_and_sent, total_failed_to_send, page_calls,
                   send_calls, queue, fetched_with_fields, normalize_errors, halted>>

\* process_all_issues has not been called.
SyncNotRunning ==
    /\ pc = "idle"
    /\ provider = NotContacted
    /\ team_field_id = "None"
    /\ projects_details = <<>>
    /\ pidx = 0
    /\ startAt = 0
    /\ total_for_project = 0
    /\ issues = <<>>
    /\ iidx = 0
    /\ cursor = 0
    /\ total_processed_and_sent = 0
    /\ total_failed_to_send = 0
    /\ page_calls = <<>>
    /\ send_calls = <<>>
    /\ queue = <<>>
    /\ fetched_with_fields = 0
    /\ normalize_errors = 0
    /\ halted = {}
    /\ result = Running

SyncNext ==
    \/ Start
    \/ \E id \in {"None", "customfield_10001"} : GetTeamFieldId(id)
    \/ FetchProjects
    \/ NextProject
    \/ FetchPage
    \/ \E outcome \in SendOutcomes : ProcessIssue(outcome)
    \/ EndPage
    \/ Return

SyncIdle ==
    /\ user_id_valid = TRUE
    /\ user_document = NoDocument
    /\ sqs_client_ok = TRUE
    /\ SyncNotRunning

-----------------------------------------------------------------------------
(* The throttle of fetch_issues_for_project (lines 277-291) under callers   *)
(* that run concurrently on one event loop and share _last_request_time.    *)
(* Time is counted in tenths of a second.                                   *)

REQUESTS_PER_MINUTE == 100
\* 60 / REQUESTS_PER_MINUTE seconds
MIN_TIME_BETWEEN_REQUESTS == 600 \div REQUESTS_PER_MINUTE

NumCallers == 2
MaxRequests == 2
MaxClock == 14

Callers == 1..NumCallers
NoTime == -1

LimiterInit ==
    /\ clock = 0
    /\ last_request_time = NoTime
    /\ lim_pc = [c \in Callers |-> "ready"]
    /\ wake = [c \in Callers |-> 0]
    /\ sent_by = [c \in Callers |-> 0]
    /\ request_starts = <<>>

\* Lines 289-291: _last_request_time = loop.time(); session.get(...)
StartRequest(c) ==
    /\ last_request_time' = clock
    /\ request_starts' = Append(request_starts, [caller |-> c, time |-> clock])
    /\ sent_by' = [sent_by EXCEPT ![c] = @ + 1]
    /\ lim_pc' = [lim_pc EXCEPT ![c] = "in_flight"]

\* Lines 281-287: sleep_time from the values read before any await.
SleepTime(now) ==
    IF last_request_time = NoTime
    THEN 0
    ELSE MIN_TIME_BETWEEN_REQUESTS - (now - last_request_time)

\* Lines 279-291 up to the first await: either the sleep starts, or the
\* request is stamped and sent at once.
Throttle(c) ==
    /\ lim_pc[c] = "ready"
    /\ IF SleepTime(clock) > 0
       THEN /\ lim_pc' = [lim_pc EXCEPT ![c] = "sleeping"]
            /\ wake' = [wake EXCEPT ![c] = clock + SleepTime(clock)]
            /\ UNCHANGED <<last_request_time, request_starts, sent_by>>
       ELSE /\ StartRequest(c)
            /\ wake' = wake
    /\ UNCHANGED <<clock, fetchVars, syncVars, listVars, gateVars,
                   normVars, extVars>>

\* asyncio.sleep(sleep_time) returns, not before it is due; lines 289-291.
WakeUp(c) ==
    /\ lim_pc[c] = "sleeping"
    /\ clock >= wake[c]
    /\ StartRequest(c)
    /\ UNCHANGED <<clock, wake, fetchVars, syncVars, listVars, gateVars,
                   normVars, extVars>>

\* The response arrives: the caller sends another request (a retry or its
\* next page) or has finished.
Respond(c) ==
    /\ lim_pc[c] = "in_flight"
    /\ lim_pc' = [lim_pc EXCEPT ![c] = IF sent_by[c] < MaxRequests THEN "ready" ELSE "done"]
    /\ UNCHANGED <<clock, last_request_time, wake, sent_by, request_starts,
                   fetchVars, syncVars, listVars, gateVars,
                   normVars, extVars>>

Tick ==
    /\ clock < MaxClock
    /\ clock' = clock + 1
    /\ UNCHANGED <<last_request_time, lim_pc, wake, sent_by, request_starts,
                   fetchVars, syncVars, listVars, gateVars,
                   normVars, extVars>>

LimiterNext ==
    \/ \E c \in Callers : Throttle(c)
    \/ \E c \in Callers : WakeUp(c)
    \/ \E c \in Callers : Respond(c)
    \/ Tick

LimiterIdle ==
    /\ clock = 0
    /\ last_request_time = NoTime
    /\ lim_pc = [c \in Callers |-> "done"]
    /\ wake = [c \in Callers |-> 0]
    /\ sent_by = [c \in Callers |-> 0]
    /\ request_starts = <<>>

-----------------------------------------------------------------------------
(* The outbound requests of sync runs that execute concurrently in one      *)
(* process and share _semaphore and _session.  The runs are alike, so the   *)
(* state counts the runs at each position instead of naming them.           *)

MAX_CONCURRENT_REQUESTS == 10

NumRuns == 11

Positions ==
    {"team_field",          \* before get_team_field_id
     "team_field_request",  \* its request is in flight
     "listing",             \* before a call of fetch_projects
     "listing_request",     \* its request is in flight
     "fetch_call",          \* entering fetch_issues_for_project
     "fetch_wait",          \* at `async with _semaphore`
     "fetch_held",          \* inside the gate, no request in flight
     "fetch_request",       \* inside the gate, its request in flight
     "finished"}

Move(from, to) ==
    /\ runs_at[from] > 0
    /\ runs_at' = [runs_at EXCEPT ![from] = @ - 1, ![to] = runs_at[to] + 1]

GateInit ==
    /\ runs_at = [q \in Positions |-> IF q = "team_field" THEN NumRuns ELSE 0]
    /\ semaphore_value = MAX_CONCURRENT_REQUESTS
    /\ session_open = FALSE

\* get_team_field_id, lines 399-402: get_session(auth, base_url) hands the
\* base URL over as the headers, so creating the session raises and no
\* request is made; an open session is reused and the request is sent,
\* outside the semaphore.
TeamFieldSend ==
    /\ IF session_open
       THEN Move("team_field", "team_field_request")
       ELSE Move("team_field", "listing")
    /\ UNCHANGED <<semaphore_value, session_open, fetchVars, syncVars, listVars, limVars,
                   normVars, extVars>>

TeamFieldRespond ==
    /\ Move("team_field_request", "listing")
    /\ UNCHANGED <<semaphore_value, session_open, fetchVars, syncVars, listVars, limVars,
                   normVars, extVars>>

\* fetch_projects, lines 93-94: a session of its own, no semaphore.
ListingSend ==
    /\ Move("listing", "listing_request")
    /\ UNCHANGED <<semaphore_value, session_open, fetchVars, syncVars, listVars, limVars,
                   normVars, extVars>>

\* The listing goes on to its next page, or has projects for the issue
\* loop, or is empty and the run ends (close_session in the finally block).
ListingRespond ==
    /\ \E to \in {"listing", "fetch_call", "finished"} :
          /\ Move("listing_request", to)
          /\ session_open' = IF to = "finished" THEN FALSE ELSE session_open
    /\ UNCHANGED <<semaphore_value, fetchVars, syncVars, listVars, limVars,
                   normVars, extVars>>

\* fetch_issues_for_project, line 270: get_session creates the session when
\* there is none.
EnterFetch ==
    /\ Move("fetch_call", "fetch_wait")
    /\ session_open' = TRUE
    /\ UNCHANGED <<semaphore_value, fetchVars, syncVars, listVars, limVars,
                   normVars, extVars>>

\* async with _semaphore (line 273)
Acquire ==
    /\ semaphore_value > 0
    /\ Move("fetch_wait", "fetch_held")
    /\ semaphore_value' = semaphore_value - 1
    /\ UNCHANGED <<session_open, fetchVars, syncVars, listVars, limVars,
                   normVars, extVars>>

\* session.get (line 291)
GateSend ==
    /\ Move("fetch_held", "fetch_request")
    /\ UNCHANGED <<semaphore_value, session_open, fetchVars, syncVars, listVars, limVars,
                   normVars, extVars>>

\* A response that is retried: the sleep is inside the gate.
GateRetry ==
    /\ Move("fetch_request", "fetch_held")
    /\ UNCHANGED <<semaphore_value, session_open, fetchVars, syncVars, listVars, limVars,
                   normVars, extVars>>

\* The call returns and leaves the gate: the run calls again for its next
\* page or project, or it was its last call and the run ends.
Release ==
    /\ \E from \in {"fetch_request", "fetch_held"}, to \in {"fetch_call", "finished"} :
          /\ Move(from, to)
          /\ session_open' = IF to = "finished" THEN FALSE ELSE session_open
    /\ semaphore_value' = semaphore_value + 1
    /\ UNCHANGED <<fetchVars, syncVars, listVars, limVars,
                   normVars, extVars>>

GateNext ==
    \/ TeamFieldSend
    \/ TeamFieldRespond
    \/ ListingSend
    \/ ListingRespond
    \/ EnterFetch
    \/ Acquire
    \/ GateSend
    \/ GateRetry
    \/ Release

GateIdle ==
    /\ runs_at = [q \in Positions |-> IF q = "finished" THEN NumRuns ELSE 0]
    /\ semaphore_value = MAX_CONCURRENT_REQUESTS
    /\ session_open = FALSE

\* Requests to the provider that are in flight.
InFlight ==
    runs_at["team_field_request"] + runs_at["listing_request"]
        + runs_at["fetch_request"]

-----------------------------------------------------------------------------
(* Change history analysis: status_transition_log (lines 118-139) and       *)
(* get_days_in_current_status (lines 162-209).  An instant is a number of   *)
(* hours; a timestamp is a text, kept as its format and the instant it      *)
(* denotes.                                                                 *)

HoursPerDay == 24

\* Formats of a "created" / "updated" value:
\*   "frac"    2025-06-18T12:20:00.000+0000
\*   "nofrac"  2025-06-18T12:20:00+0000
\*   "iso"     what datetime.isoformat() writes, 2025-06-18T12:20:00+00:00
\*   "bad"     a text in none of these formats
\*   "empty"   the empty string;  "null"  None;  "absent"  no such key
Ts(fmt, t) == [fmt |-> fmt, t |-> t]
NoTs(fmt) == [fmt |-> fmt, t |-> 0]

\* not created_timestamp
Falsy(ts) == ts.fmt \in {"absent", "null", "empty"}

\* datetime.strptime(text, format), format "%Y-%m-%dT%H:%M:%S.%f%z" ("frac")
\* or "%Y-%m-%dT%H:%M:%S%z" ("nofrac"): ValueError unless the text has
\* that very format.
Strptime(ts, format) ==
    IF ts.fmt = format THEN [ok |-> TRUE, t |-> ts.t] ELSE [ok |-> FALSE, t |-> 0]

\* datetime.isoformat()
IsoFormat(t) == Ts("iso", t)

\* (now - date).days: timedelta.days is the floor of the quotient
DaysBetween(now, t) == (now - t) \div HoursPerDay

Item(field, from, to) ==
    [mapping |-> TRUE, field |-> field, fromString |-> from, toString |-> to]
NotMappingItem ==
    [mapping |-> FALSE, field |-> "", fromString |-> "", toString |-> ""]

\* items_kind: "list" | "absent" | "null" | "str"
History(created, items_kind, items) ==
    [mapping |-> TRUE, created |-> created, items_kind |-> items_kind, items |-> items]
NotMappingHistory ==
    [mapping |-> FALSE, created |-> NoTs("absent"), items_kind |-> "absent", items |-> <<>>]

\* kind: "dict" | "null" | "list" | "str";
\* histories_kind: "list" | "absent" | "null" | "str"
Changelog(kind, histories_kind, histories) ==
    [kind |-> kind, histories_kind |-> histories_kind, histories |-> histories]

\* issue.get("changelog", {}) when the issue has no changelog
EmptyChangelog == Changelog("dict", "absent", <<>>)

Unknown == [known |-> FALSE, n |-> 0]
Days(n) == [known |-> TRUE, n |-> n]

NoneUnknown == [raised |-> FALSE, date |-> NoTs("null"), days |-> Unknown]

\* The variant that takes any text for a timestamp.
ParseCreatedLenient(created) == [ok |-> TRUE, t |-> created.t]

\* Lines 189-201: both formats are tried; any failure is logged (line 203)
\* and the scan goes on.
ParseCreated(created) ==
    LET a == Strptime(created, "frac")
    IN  IF a.ok THEN a ELSE Strptime(created, "nofrac")

\* Lines 187-204: the items of one history from index i on.
\*   "found": line 201 returns;  "abort": item.get raised, caught at line 206;
\*   "next": no item of this history returned.
RECURSIVE ScanItems(_, _, _, _)
ScanItems(items, i, created, current_status) ==
    IF i > Len(items) THEN [kind |-> "next", t |-> 0]
    ELSE IF ~items[i].mapping THEN [kind |-> "abort", t |-> 0]
    ELSE IF items[i].field = "status" /\ items[i].toString = current_status
                /\ ParseCreated(created).ok
         THEN [kind |-> "found", t |-> ParseCreated(created).t]
         ELSE ScanItems(items, i + 1, created, current_status)

\* The variant that scans from the first history to the last.
RECURSIVE ScanHistoriesForward(_, _, _)
ScanHistoriesForward(histories, k, current_status) ==
    IF k < 1 THEN [kind |-> "next", t |-> 0]
    ELSE LET earlier == ScanHistoriesForward(histories, k - 1, current_status)
             history == histories[k]
         IN  IF earlier.kind # "next" THEN earlier
             ELSE IF ~history.mapping THEN [kind |-> "abort", t |-> 0]
             ELSE IF Falsy(history.created) \/ history.items_kind # "list"
             THEN earlier
             ELSE ScanItems(history.items, 1, history.created, current_status)

\* Lines 178-204: for history in reversed(histories), from index k down.
RECURSIVE ScanHistories(_, _, _)
ScanHistories(histories, k, current_status) ==
    IF k < 1 THEN [kind |-> "next", t |-> 0]
    ELSE LET history == histories[k]
         IN  IF ~history.mapping THEN [kind |-> "abort", t |-> 0]
             ELSE IF Falsy(history.created) \/ history.items_kind # "list"
             THEN ScanHistories(histories, k - 1, current_status)
             ELSE LET r == ScanItems(history.items, 1, history.created, current_status)
                  IN  IF r.kind = "next"
                      THEN ScanHistories(histories, k - 1, current_status)
                      ELSE r

get_days_in_current_status(changelog, current_status, now) ==
    IF changelog.kind # "dict" THEN NoneUnknown
    ELSE LET histories == IF changelog.histories_kind = "list"
                          THEN changelog.histories ELSE <<>>
             r == ScanHistories(histories, Len(histories), current_status)
         IN  IF r.kind = "found"
             THEN [raised |-> FALSE, date |-> IsoFormat(r.t),
                   days |-> Days(DaysBetween(now, r.t))]
             ELSE NoneUnknown

\* status_transition_log: the first status item of the histories in their
\* order.  "raise" when a .get or an iteration meets a value of another type.
NoLog == [created |-> NoTs("null"), fromString |-> "", toString |-> ""]

RECURSIVE FirstStatusItem(_, _, _)
FirstStatusItem(items, i, created) ==
    IF i > Len(items) THEN [kind |-> "next", log |-> NoLog]
    ELSE IF ~items[i].mapping THEN [kind |-> "raise", log |-> NoLog]
    ELSE IF items[i].field = "status"
         THEN [kind |-> "found",
               log |-> [created |-> created, fromString |-> items[i].fromString,
                        toString |-> items[i].toString]]
         ELSE FirstStatusItem(items, i + 1, created)

\* The variant that returns the last status item instead of the first.
RECURSIVE LastStatusChange(_, _)
LastStatusChange(histories, k) ==
    IF k > Len(histories) THEN [kind |-> "next", log |-> NoLog]
    ELSE LET later == LastStatusChange(histories, k + 1)
         IN  IF later.kind # "next" THEN later
             ELSE FirstStatusItem(histories[k].items, 1, histories[k].created)

RECURSIVE FirstStatusChange(_, _)
FirstStatusChange(histories, k) ==
    IF k > Len(histories) THEN [kind |-> "next", log |-> NoLog]
    ELSE LET history == histories[k]
         IN  IF ~history.mapping \/ history.items_kind \in {"null", "str"}
             THEN [kind |-> "raise", log |-> NoLog]
             ELSE LET r == FirstStatusItem(history.items, 1, history.created)
                  IN  IF r.kind = "next" THEN FirstStatusChange(histories, k + 1) ELSE r

\* kind "list": [first_status_change];  "None";  "raise"
status_transition_log(changelog) ==
    IF changelog.kind # "dict" \/ changelog.histories_kind \in {"null", "str"}
    THEN [kind |-> "raise", log |-> NoLog]
    ELSE LET r == FirstStatusChange(changelog.histories, 1)
         IN  IF r.kind = "found" THEN [kind |-> "list", log |-> r.log]
             ELSE IF r.kind = "raise" THEN r
             ELSE [kind |-> "None", log |-> NoLog]

-----------------------------------------------------------------------------
(* The record built from one raw issue (lines 494-594).  A field of the raw *)
(* issue is kept by the shape of its value.                                 *)

\* timetracking: kind "dict" | "absent" | "null" | "str", and for a dict
\* which of its keys are present.
Timetracking(kind, original, remaining, spent) ==
    [kind |-> kind, originalEstimate |-> original, remainingEstimate |-> remaining,
     timeSpent |-> spent]

\* status: kind "dict" | "absent" | "null"; name "" when the dict has none.
StatusField(kind, name) == [kind |-> kind, name |-> name]

\* team: the value stored under the team field id, by its shape.
\*   kind "absent" | "null" | "dict" | "dict_no_name" | "list" | "empty_list" |
\*        "str" | "number";  for a list, first is the shape of its first
\*   element ("dict" | "dict_no_name" | "other");  text is the name or string.
TeamInfo(kind, first, text) == [kind |-> kind, first |-> first, text |-> text]
NoTeamInfo == TeamInfo("absent", "", "")

RawFields(assignee, labels, duedate, timetracking, status, updated, worklog, team) ==
    [assignee |-> assignee, labels |-> labels, duedate |-> duedate,
     timetracking |-> timetracking, status |-> status, updated |-> updated,
     worklog |-> worklog, team |-> team]

OutStr(text) == [t |-> "str", s |-> text]
OutNull == [t |-> "null", s |-> ""]
OutList(content) == [t |-> "list", s |-> content]

NullDays == [t |-> "null", n |-> 0]
IntDays(n) == [t |-> "int", n |-> n]

\* str.strip() of a team string: "" when it holds only white space.
Strip(text) == IF text \in {"", " "} THEN "" ELSE text

\* The variant that never looks inside a list.
TeamOfIgnoringLists(team_id, fields) ==
    IF team_id = "None" THEN OutStr("No team assigned")
    ELSE IF fields.team.kind = "dict" THEN OutStr(fields.team.text)
    ELSE IF fields.team.kind = "str" /\ Strip(fields.team.text) # ""
    THEN OutStr(fields.team.text)
    ELSE OutStr("No team assigned")

\* Lines 501-521
TeamOf(team_id, fields) ==
    IF team_id = "None" THEN OutStr("No team assigned")
    ELSE LET team_info == fields.team
         IN  CASE team_info.kind = "dict" -> OutStr(team_info.text)
               [] team_info.kind = "dict_no_name" -> OutStr("Unnamed team")
               [] team_info.kind = "list" ->
                     (CASE team_info.first = "dict" -> OutStr(team_info.text)
                        [] team_info.first = "dict_no_name" -> OutStr("Unnamed team in list")
                        [] OTHER -> OutStr(team_info.text))
               [] team_info.kind = "str" /\ Strip(team_info.text) # "" ->
                     OutStr(team_info.text)
               [] OTHER -> OutStr("No team assigned")

\* Line 525
AssigneeOf(fields) ==
    IF fields.assignee = "dict" THEN OutStr("displayName") ELSE OutStr("Unassigned")

\* Line 530
LabelsOf(fields) ==
    IF fields.labels = "list" THEN OutList("labels") ELSE OutList("")

\* Line 566: fields.get('duedate', 'No due date')
DueDateOf(fields) ==
    CASE fields.duedate = "absent" -> OutStr("No due date")
      [] fields.duedate = "null" -> OutNull
      [] OTHER -> OutStr("duedate")

\* Lines 532-541: timetracking.get(key) and timetracking.get(key, default)
TimetrackingGet(fields, present, default) ==
    IF fields.timetracking.kind = "dict" /\ present THEN OutStr("duration") ELSE default

OriginalEstimateOf(fields) ==
    TimetrackingGet(fields, fields.timetracking.originalEstimate, OutNull)
RemainingEstimateOf(fields) ==
    TimetrackingGet(fields, fields.timetracking.remainingEstimate, OutNull)
TimeLoggedOf(fields) ==
    TimetrackingGet(fields, fields.timetracking.timeSpent, OutStr("0h"))

\* Lines 543-544
CurrentStatusOf(fields) ==
    IF fields.status.kind = "dict" /\ fields.status.name # ""
    THEN fields.status.name ELSE "Unknown"

\* Lines 546-560: one format is tried; max(delta_days, 0)
InactivityDaysOf(fields, clock_now) ==
    IF Falsy(fields.updated) THEN NullDays
    ELSE LET parsed == Strptime(fields.updated, "frac")
         IN  IF ~parsed.ok THEN NullDays
             ELSE LET delta_days == DaysBetween(clock_now, parsed.t)
                  IN  IntDays(IF delta_days > 0 THEN delta_days ELSE 0)

NotBuilt ==
    [built |-> FALSE, raised |-> FALSE,
     team |-> OutNull,
     assignee |-> OutNull, labels |-> OutNull, due_date |-> OutNull,
     original_estimate |-> OutNull, remaining_estimate |-> OutNull,
     time_logged |-> OutNull, status |-> "", days_in_current_status |-> Unknown,
     last_status_change_date |-> NoTs("null"), update_inactivity_days |-> NullDays,
     has_status_transition_log |-> FALSE, status_transition_log |-> NoLog]

BuildRaised == [NotBuilt EXCEPT !.raised = TRUE]

\* Lines 523-594 for an issue that has fields.
BuildRecord(fields, changelog, clock_now, team_id) ==
    LET status_transition == status_transition_log(changelog)
        days == get_days_in_current_status(changelog, CurrentStatusOf(fields), clock_now)
    IN  IF fields.worklog = "null" \/ status_transition.kind = "raise"
        THEN BuildRaised
        ELSE [built |-> TRUE, raised |-> FALSE,
              team |-> TeamOf(team_id, fields),
              assignee |-> AssigneeOf(fields),
              labels |-> LabelsOf(fields),
              due_date |-> DueDateOf(fields),
              original_estimate |-> OriginalEstimateOf(fields),
              remaining_estimate |-> RemainingEstimateOf(fields),
              time_logged |-> TimeLoggedOf(fields),
              status |-> CurrentStatusOf(fields),
              days_in_current_status |-> days.days,
              last_status_change_date |-> days.date,
              update_inactivity_days |-> InactivityDaysOf(fields, clock_now),
              has_status_transition_log |-> status_transition.kind = "list",
              status_transition_log |-> status_transition.log]

-----------------------------------------------------------------------------
(* The three operations applied to one raw issue, each once, in any order:  *)
(* get_days_in_current_status, status_transition_log, and the building of   *)
(* the record.                                                              *)

MaxHistories == 2

\* Open -> In Progress at hour 10, In Progress -> Done at hour 40
OpenToInProgress ==
    History(Ts("frac", 10), "list", <<Item("status", "Open", "In Progress")>>)
InProgressToDone ==
    History(Ts("frac", 40), "list", <<Item("status", "In Progress", "Done")>>)

SampleHistories ==
    {OpenToInProgress,
     InProgressToDone,
     History(Ts("frac", 10), "list", <<Item("status", "Open", "Done")>>),
     History(Ts("nofrac", 40), "list", <<Item("status", "In Progress", "Done")>>),
     History(Ts("frac", 40), "list",
             <<Item("assignee", "a", "b"), Item("status", "Open", "Done"),
               Item("status", "Open", "In Progress")>>),
     History(Ts("frac", 40), "list", <<Item("assignee", "a", "b")>>),
     History(Ts("bad", 0), "list", <<Item("status", "In Progress", "Done")>>),
     History(NoTs("absent"), "list", <<Item("status", "In Progress", "Done")>>),
     History(NoTs("empty"), "list", <<Item("status", "In Progress", "Done")>>),
     History(Ts("frac", 40), "absent", <<>>),
     History(Ts("frac", 40), "null", <<>>),
     History(Ts("frac", 40), "list",
             <<NotMappingItem, Item("status", "In Progress", "Done")>>),
     NotMappingHistory}

SampleChangelogs ==
    {Changelog("dict", "list", hs) :
        hs \in UNION {[1..n -> SampleHistories] : n \in 0..MaxHistories}}
    \cup {EmptyChangelog,
          Changelog("dict", "null", <<>>),
          Changelog("dict", "str", <<>>),
          Changelog("null", "absent", <<>>),
          Changelog("list", "absent", <<>>),
          Changelog("str", "absent", <<>>)}

Statuses == {"Done", "In Progress"}

Clocks == {39, 64, 100}

FullTimetracking == Timetracking("dict", TRUE, TRUE, TRUE)

BaseFields ==
    RawFields("dict", "list", "date", FullTimetracking, StatusField("dict", "Done"),
              Ts("frac", 40), "dict", TeamInfo("dict", "", "Platform"))

SampleTeams ==
    {NoTeamInfo,
     TeamInfo("null", "", ""),
     TeamInfo("dict_no_name", "", ""),
     TeamInfo("list", "dict", "Platform"),
     TeamInfo("list", "dict_no_name", ""),
     TeamInfo("list", "other", "Platform"),
     TeamInfo("empty_list", "", ""),
     TeamInfo("str", "", "Platform"),
     TeamInfo("str", "", " "),
     TeamInfo("str", "", ""),
     TeamInfo("number", "", "")}

SampleFields ==
    {[BaseFields EXCEPT !.assignee = a] : a \in {"absent", "null", "dict_no_name", "str"}}
    \cup {[BaseFields EXCEPT !.labels = l] : l \in {"absent", "null", "str"}}
    \cup {[BaseFields EXCEPT !.duedate = d] : d \in {"absent", "null"}}
    \cup {[BaseFields EXCEPT !.timetracking = Timetracking(k, FALSE, FALSE, FALSE)] :
             k \in {"absent", "null", "str", "dict"}}
    \cup {[BaseFields EXCEPT !.timetracking = Timetracking("dict", o, r, sp)] :
             o, r, sp \in BOOLEAN}
    \cup {[BaseFields EXCEPT !.status = st] :
             st \in {StatusField("absent", ""), StatusField("null", ""),
                     StatusField("dict", ""), StatusField("dict", "In Progress")}}
    \cup {[BaseFields EXCEPT !.updated = u] :
             u \in {NoTs("absent"), NoTs("null"), NoTs("empty"), Ts("bad", 0),
                    Ts("nofrac", 40), Ts("frac", 10)}}
    \cup {[BaseFields EXCEPT !.worklog = w] : w \in {"absent", "null"}}
    \cup {[BaseFields EXCEPT !.team = team] : team \in SampleTeams}

NoneCalled == [days |-> FALSE, log |-> FALSE, build |-> FALSE, again |-> FALSE]

NormInit ==
    /\ \/ raw_fields = BaseFields /\ raw_changelog \in SampleChangelogs
       \/ /\ raw_fields \in SampleFields
          /\ raw_changelog \in {EmptyChangelog,
                                Changelog("dict", "list", <<OpenToInProgress, InProgressToDone>>)}
    /\ asked_status \in Statuses
    /\ now_utc \in Clocks
    /\ called = NoneCalled
    /\ days_result = NoneUnknown
    /\ log_result = [kind |-> "None", log |-> NoLog]
    /\ record = NotBuilt
    /\ norm_team_field_id \in {"None", "customfield_10001"}
    /\ later_utc = now_utc
    /\ record_again = NotBuilt

CallGetDays ==
    /\ ~called.days
    /\ called' = [called EXCEPT !.days = TRUE]
    /\ days_result' = get_days_in_current_status(raw_changelog, asked_status, now_utc)
    /\ UNCHANGED <<raw_fields, raw_changelog, asked_status, now_utc, log_result, record,
                   norm_team_field_id, later_utc, record_again,
                   fetchVars, syncVars, listVars, limVars, gateVars, extVars>>

CallStatusTransitionLog ==
    /\ ~called.log
    /\ called' = [called EXCEPT !.log = TRUE]
    /\ log_result' = status_transition_log(raw_changelog)
    /\ UNCHANGED <<raw_fields, raw_changelog, asked_status, now_utc, days_result, record,
                   norm_team_field_id, later_utc, record_again,
                   fetchVars, syncVars, listVars, limVars, gateVars, extVars>>

NormalizeIssue ==
    /\ ~called.build
    /\ called' = [called EXCEPT !.build = TRUE]
    /\ record' = BuildRecord(raw_fields, raw_changelog, now_utc, norm_team_field_id)
    /\ UNCHANGED <<raw_fields, raw_changelog, asked_status, now_utc, days_result,
                   log_result, norm_team_field_id, later_utc, record_again,
                   fetchVars, syncVars, listVars, limVars, gateVars, extVars>>

\* The same raw issue is normalised a second time, when the clock reads
\* `later` (lines 553 and 196 read the clock at each call).
NormalizeAgain(later) ==
    /\ called.build /\ ~called.again
    /\ later >= now_utc
    /\ called' = [called EXCEPT !.again = TRUE]
    /\ later_utc' = later
    /\ record_again' = BuildRecord(raw_fields, raw_changelog, later, norm_team_field_id)
    /\ UNCHANGED <<raw_fields, raw_changelog, asked_status, now_utc, days_result,
                   log_result, record, norm_team_field_id,
                   fetchVars, syncVars, listVars, limVars, gateVars, extVars>>

NormNext ==
    \/ CallGetDays
    \/ CallStatusTransitionLog
    \/ NormalizeIssue
    \/ \E later \in Clocks : NormalizeAgain(later)

NormIdle ==
    /\ raw_fields = BaseFields
    /\ raw_changelog = EmptyChangelog
    /\ asked_status = "Unknown"
    /\ now_utc = 0
    /\ called = [days |-> TRUE, log |-> TRUE, build |-> TRUE, again |-> TRUE]
    /\ days_result = NoneUnknown
    /\ log_result = [kind |-> "None", log |-> NoLog]
    /\ record = NotBuilt
    /\ norm_team_field_id = "None"
    /\ later_utc = 0
    /\ record_again = NotBuilt

-----------------------------------------------------------------------------
(* fetch_all_project_details (fetch_projects.py), one call page by page.    *)
(* An outcome is what one call of fetch_projects, retries included, gives   *)
(* back: a page of the listing or the exception it raised.                  *)

page_max_results == 50

\* The provider's answer to a request at `offset`: n projects, keyed
\* offset+1 .. offset+n, the last one without a name when `named` is FALSE.
ProjectValues(offset, n, named) ==
    [i \in 1..n |-> [key |-> offset + i,
                     name |-> IF i = n /\ ~named THEN "" ELSE "name"]]

ListingPage(n, total, named) ==
    [kind |-> "page", n |-> n, total |-> total, named |-> named]
ListingRaised(exc) ==
    [kind |-> exc, n |-> 0, total |-> 0, named |-> TRUE]

ListingPageSizes == {0, 1, 2, 20, 50}
ListingTotals == {0, 2, 50, 120}
ListingExceptions ==
    {"AuthenticationError", "PermissionError", "JiraAPIError",
     "ClientConnectionError", "TimeoutError", "Exception"}

ListingOutcomes ==
    {ListingPage(n, t, TRUE) : n \in ListingPageSizes, t \in ListingTotals}
    \cup {ListingPage(2, 2, FALSE)}
    \cup {ListingRaised(e) : e \in ListingExceptions}

ReturnedList(v) == [t |-> "list", v |-> v]
ListNone == [t |-> "None", v |-> <<>>]
ListRunning == [t |-> "running", v |-> <<>>]

ListInit ==
    /\ lpc = "credentials"
    /\ page_start_at = 0
    /\ total_projects = 0
    /\ all_project_details = <<>>
    /\ list_calls = <<>>
    /\ lret = ListRunning

\* Lines 170-198: the credential lookup; None when it raises.
ListCredentials ==
    /\ lpc = "credentials"
    /\ IF LoadCredentials(user_id_valid, user_document).ok
       THEN lpc' = "page" /\ lret' = lret
       ELSE lpc' = "returned" /\ lret' = ListNone
    /\ UNCHANGED <<page_start_at, total_projects, all_project_details, list_calls,
                   fetchVars, syncVars, limVars, gateVars,
                   normVars, extVars>>

\* A variant that keeps the first project of a page only.
KeptFirstProject(values) == SubSeq(values, 1, 1)

\* if key and name: all_project_details.append({"key": key, "name": name})
KeptProjects(values) ==
    SelectSeq(values, LAMBDA project : project.name # "")

\* if not values: break.  Its variant keeps the loop going.
ListingNeverExhausted(values) == FALSE

ListingExhausted(values) == values = <<>>

\* Lines 227-240: every except clause logs and falls through to `return []`.
\* Its variant hands back what was fetched before the failure.
ListingKeepsFetched(details) == details

ListingOnFailure(details) == <<>>

\* Lines 200-240: one turn of the while loop.  An exception of fetch_projects
\* is caught by one of the except clauses and the function returns [].
ListPageCall(o) ==
    /\ lpc = "page"
    /\ list_calls' = Append(list_calls,
           [startAt |-> page_start_at, maxResults |-> page_max_results,
            kind |-> o.kind, got |-> o.n, total |-> o.total,
            named |-> o.named])
    /\ IF o.kind # "page"
       THEN /\ lpc' = "returned"
            /\ lret' = ReturnedList(ListingOnFailure(all_project_details))
            /\ UNCHANGED <<page_start_at, total_projects, all_project_details>>
       ELSE LET values == ProjectValues(page_start_at, o.n, o.named)
            IN  /\ total_projects' = o.total
                /\ IF ListingExhausted(values)
                   THEN /\ lpc' = "returned"
                        /\ lret' = ReturnedList(all_project_details)
                        /\ UNCHANGED <<page_start_at, all_project_details>>
                   ELSE /\ all_project_details' =
                               all_project_details \o KeptProjects(values)
                        /\ page_start_at' = page_start_at + page_max_results
                        /\ IF page_start_at' >= total_projects'
                           THEN /\ lpc' = "returned"
                                /\ lret' = ReturnedList(all_project_details')
                           ELSE /\ lpc' = "page" /\ lret' = lret
    /\ UNCHANGED <<fetchVars, syncVars, limVars, gateVars,
                   normVars, extVars>>

ListNext ==
    \/ ListCredentials
    \/ \E o \in ListingOutcomes : ListPageCall(o)

ListIdle ==
    /\ lpc = "idle"
    /\ page_start_at = 0
    /\ total_projects = 0
    /\ all_project_details = <<>>
    /\ list_calls = <<>>
    /\ lret = ListRunning

-----------------------------------------------------------------------------
(* One webhook: the endpoint jira_webhook of main.py (lines 143-176) and    *)
(* handle_webhook of jira_webhook/main2.py (lines 195-248).                 *)

\* def handle_webhook(event, data, user_id, email, api_token, domain)
HandlerParams == 6
\* await handle_webhook(event, data, user_id_str, email)
EndpointArgs == 4

IssueEvents == {"jira:issue_updated", "jira:issue_created"}
WorklogEvents == {"worklog_created", "worklog_updated", "worklog_deleted"}
WebhookEvents == IssueEvents \cup WorklogEvents \cup {"comment_created", "absent"}

\* The body of the request.
\*   json:    "invalid" (request.json() raises) | "list" | "mapping"
\*   event:   data["webhookEvent"], "absent" when the key is missing
\*   issue:   "absent" | "good" | "no_self" | "short_self" (self has no third
\*            part when split at "/") | "bad_fields" (a fields value that
\*            _parse_issue_data cannot read) | "not_mapping"
\*   worklog: "absent" | "no_issue_id" | "with_issue_id" | "not_mapping"
Payload(json, event, issue, worklog) ==
    [json |-> json, event |-> event, issue |-> issue, worklog |-> worklog]

IssueShapes == {"absent", "good", "no_self", "short_self", "bad_fields", "not_mapping"}
WorklogShapes == {"absent", "no_issue_id", "with_issue_id", "not_mapping"}
UserLookups == {"found", "unknown", "no_email", "db_error"}
DetailsOutcomes == {"ok", "401", "403", "404", "500", "connection", "timeout", "bad_details"}

MappingPayloads ==
    {Payload("mapping", e, i, w) : e \in WebhookEvents, i \in IssueShapes, w \in WorklogShapes}

\* line 216: data.get("webhookEvent", "unknown")
EventOf(data) == IF data.event = "absent" THEN "unknown" ELSE data.event

WebInit ==
    /\ w_entry \in {"endpoint", "direct"}
    /\ IF w_entry = "endpoint"
       THEN /\ wpc = "request"
            /\ w_data \in MappingPayloads \cup {Payload("invalid", "absent", "absent", "absent"),
                                                Payload("list", "absent", "absent", "absent")}
            /\ w_user \in UserLookups
       ELSE /\ wpc = "handler"
            /\ w_data \in MappingPayloads \cup {Payload("list", "absent", "absent", "absent")}
            /\ w_user = "found"
    /\ http_status = 0
    /\ http_body_status = ""
    /\ w_status = ""
    /\ w_raised = ""
    /\ w_publishes = 0
    /\ w_provider_calls = 0

\* The endpoint ends with an HTTP error: HTTPException(400), or an exception
\* that no handler catches (500).
EndpointFails(code, exception) ==
    /\ wpc' = "done"
    /\ http_status' = code
    /\ w_raised' = exception
    /\ UNCHANGED <<http_body_status, w_status>>

\* main.py lines 145-150
Receive ==
    /\ wpc = "request"
    /\ IF w_data.json = "invalid"
       THEN EndpointFails(400, "HTTPException")
       ELSE wpc' = "identify" /\ UNCHANGED <<http_status, http_body_status, w_status, w_raised>>
    /\ UNCHANGED <<w_entry, w_data, w_user, w_publishes, w_provider_calls,
                   fetchVars, syncVars, listVars, limVars, gateVars, normVars, consVars,
                   backVars, scoreVars, sharedVars>>

\* main.py lines 151-171: only KeyError and IndexError are turned into 400.
Identify ==
    /\ wpc = "identify"
    /\ CASE w_data.json # "mapping" -> EndpointFails(500, "AttributeError")
         [] w_data.json = "mapping" /\ w_data.issue = "not_mapping" ->
               EndpointFails(500, "AttributeError")
         [] w_data.json = "mapping" /\ w_data.issue \in {"absent", "no_self"} ->
               EndpointFails(400, "HTTPException")
         [] w_data.json = "mapping" /\ w_data.issue = "short_self" ->
               EndpointFails(400, "HTTPException")
         [] OTHER ->
               CASE w_user = "db_error" -> EndpointFails(500, "PyMongoError")
                 [] w_user = "unknown" -> EndpointFails(500, "TypeError")
                 [] w_user = "no_email" -> EndpointFails(400, "HTTPException")
                 [] OTHER -> /\ wpc' = "call"
                             /\ UNCHANGED <<http_status, http_body_status, w_status, w_raised>>
    /\ UNCHANGED <<w_entry, w_data, w_user, w_publishes, w_provider_calls,
                   fetchVars, syncVars, listVars, limVars, gateVars, normVars, consVars,
                   backVars, scoreVars, sharedVars>>

\* main.py line 174: the call binds its arguments to the parameters of
\* handle_webhook, TypeError when they do not fit.
CallHandler ==
    /\ wpc = "call"
    /\ IF EndpointArgs # HandlerParams
       THEN EndpointFails(500, "TypeError")
       ELSE wpc' = "handler" /\ UNCHANGED <<http_status, http_body_status, w_status, w_raised>>
    /\ UNCHANGED <<w_entry, w_data, w_user, w_publishes, w_provider_calls,
                   fetchVars, syncVars, listVars, limVars, gateVars, normVars, consVars,
                   backVars, scoreVars, sharedVars>>

\* handle_webhook returns the record {"status": st, ...}; the endpoint then
\* answers 200 with its own body (main.py line 176).
HandlerReturns(st) ==
    /\ wpc' = "done"
    /\ w_status' = st
    /\ IF w_entry = "endpoint"
       THEN http_status' = 200 /\ http_body_status' = "webhook received and processing initiated"
       ELSE UNCHANGED <<http_status, http_body_status>>
    /\ UNCHANGED w_raised

\* The variant that takes every event other than an issue event for a
\* worklog event.
IsNotIssueEvent(webhook_event) == webhook_event \notin IssueEvents

\* main2.py line 236
IsWorklogEvent(webhook_event) == webhook_event \in WorklogEvents

\* main2.py lines 215-244 up to the provider lookup or the publish; every
\* exception is caught at line 246.
HandleWebhook ==
    /\ wpc = "handler"
    /\ IF w_data.json # "mapping" THEN HandlerReturns("error")
       ELSE IF EventOf(w_data) \in IssueEvents
       THEN IF w_data.issue \in {"not_mapping", "bad_fields"}
            THEN HandlerReturns("error")
            ELSE /\ wpc' = "send"
                 /\ UNCHANGED <<http_status, http_body_status, w_status, w_raised>>
       ELSE IF IsWorklogEvent(EventOf(w_data))
       THEN CASE w_data.worklog = "not_mapping" -> HandlerReturns("error")
              [] w_data.worklog = "with_issue_id" ->
                    /\ wpc' = "details"
                    /\ UNCHANGED <<http_status, http_body_status, w_status, w_raised>>
              [] OTHER ->
                    \* worklog_issue_data returns its error record, which is published
                    /\ wpc' = "send"
                    /\ UNCHANGED <<http_status, http_body_status, w_status, w_raised>>
       ELSE HandlerReturns("ignored")
    /\ UNCHANGED <<w_entry, w_data, w_user, w_publishes, w_provider_calls,
                   fetchVars, syncVars, listVars, limVars, gateVars, normVars, consVars,
                   backVars, scoreVars, sharedVars>>

\* main2.py lines 146-185: get_details asks the provider for the issue of
\* the worklog; whatever it raises is caught at line 246.
GetDetails(o) ==
    /\ wpc = "details"
    /\ w_provider_calls' = w_provider_calls + 1
    /\ IF o = "ok"
       THEN wpc' = "send" /\ UNCHANGED <<http_status, http_body_status, w_status, w_raised>>
       ELSE HandlerReturns("error")
    /\ UNCHANGED <<w_entry, w_data, w_user, w_publishes,
                   fetchVars, syncVars, listVars, limVars, gateVars, normVars, consVars,
                   backVars, scoreVars, sharedVars>>

\* main2.py lines 195-206: send_issue_to_sqs(data, email).
SendDataToSqs(client_ok, outcome) ==
    /\ wpc = "send"
    /\ LET r == CallSend(<<"data", "email">>, client_ok, outcome)
       IN  /\ w_publishes' = w_publishes + r.sends
           /\ IF ~r.raised /\ r.ret
              THEN HandlerReturns("success")
              ELSE HandlerReturns("error")
    /\ UNCHANGED <<w_entry, w_data, w_user, w_provider_calls,
                   fetchVars, syncVars, listVars, limVars, gateVars, normVars, consVars,
                   backVars, scoreVars, sharedVars>>

WebNext ==
    \/ Receive
    \/ Identify
    \/ CallHandler
    \/ HandleWebhook
    \/ \E o \in DetailsOutcomes : GetDetails(o)
    \/ \E client_ok \in BOOLEAN, outcome \in SendOutcomes : SendDataToSqs(client_ok, outcome)

WebIdle ==
    /\ wpc = "idle"
    /\ w_entry = "direct"
    /\ w_data = Payload("mapping", "absent", "absent", "absent")
    /\ w_user = "found"
    /\ http_status = 0
    /\ http_body_status = ""
    /\ w_status = ""
    /\ w_raised = ""
    /\ w_publishes = 0
    /\ w_provider_calls = 0

-----------------------------------------------------------------------------
(* The scoring consumer: lambda_handler of lambdaopenai/hello_world/app.py  *)
(* (lines 312-376), invoked with batches of queue records; a message may be *)
(* delivered in any number of batches.                                      *)

MaxInvocations == 2
MaxBatch == 2

\* A queue record: messageId, and the body by what it holds.
\*   body "json": a JSON object with the issue key `key` ("" when the body
\*   has no key) and the issue fields `fields`;  "empty";  "bad_json".
Message(id, body, key, fields) == [id |-> id, body |-> body, key |-> key, fields |-> fields]

Messages ==
    {Message("m1", "json", "K1", "v1"),
     Message("m2", "json", "K1", "v2"),
     Message("m3", "json", "K2", "v1"),
     Message("m4", "bad_json", "", "")}

MessageIds == {m.id : m \in Messages}
IssueKeys == {"K1", "K2", "Unknown"}

Batches == UNION {[1..n -> Messages] : n \in 0..MaxBatch}

\* line 273: issue_data.get("key", "Unknown")
KeyOf(m) == IF m.key = "" THEN "Unknown" ELSE m.key

AiOutcomes == {"ok", "APIError", "ValidationError", "Exception"}
StoreOutcomes == {"ok", "OperationFailure", "Exception"}
PingOutcomes == {"ok", "ConnectionFailure"}

NoResponse == [kind |-> "none", statusCode |-> 0, failures |-> <<>>, has_failures |-> FALSE]

\* The variant that inserts a new document at every call.
InsertOne(docs, issue_key, document) == Append(docs, document)

\* lines 222-226: update_one({'key': issue_key}, {'$set': document}, upsert=True)
UpdateOneUpsert(docs, issue_key, document) ==
    IF \E i \in 1..Len(docs) : docs[i].key = issue_key
    THEN LET first == CHOOSE i \in 1..Len(docs) :
                         /\ docs[i].key = issue_key
                         /\ \A j \in 1..(i - 1) : docs[j].key # issue_key
         IN  [docs EXCEPT ![first] = document]
    ELSE Append(docs, document)

\* lines 248-310: result['success'] of one record, `ai` and `st` being what
\* the AI call and the store give after their retries.
process_single_record(m, ai, st) ==
    IF m.body = "empty" THEN FALSE
    ELSE IF m.body = "bad_json" THEN FALSE
    ELSE IF ai # "ok" THEN FALSE
    ELSE st = "ok"

\* The variant that lists no record as failed.
NeverFailed(success) == FALSE

\* line 347: if result['success'] ... else: the record is listed as failed
RecordFailed(success) == ~success

ConsInit ==
    /\ cpc = "ready"
    /\ c_invocations = 0
    /\ c_batch = <<>>
    /\ c_idx = 0
    /\ batch_item_failures = <<>>
    /\ successful_count = 0
    /\ c_results = <<>>
    /\ c_response = NoResponse
    /\ store = <<>>
    /\ c_stored = [id \in MessageIds |-> 0]
    /\ c_last = [k \in IssueKeys |-> ""]

\* lines 317-342: the connection test, the empty batch, the start of the loop
Invoke(batch, ping) ==
    /\ cpc \in {"ready", "done"}
    /\ c_invocations < MaxInvocations
    /\ c_invocations' = c_invocations + 1
    /\ c_batch' = batch
    /\ c_results' = <<>>
    /\ successful_count' = 0
    /\ batch_item_failures' = <<>>
    /\ IF ping # "ok"
       THEN /\ cpc' = "done"
            /\ c_idx' = 0
            /\ c_response' = [kind |-> "unreachable", statusCode |-> 500,
                              failures |-> [i \in 1..Len(batch) |-> batch[i].id],
                              has_failures |-> TRUE]
       ELSE IF batch = <<>>
       THEN /\ cpc' = "done"
            /\ c_idx' = 0
            /\ c_response' = [kind |-> "no_records", statusCode |-> 200,
                              failures |-> <<>>, has_failures |-> FALSE]
       ELSE /\ cpc' = "records"
            /\ c_idx' = 1
            /\ c_response' = NoResponse
    /\ UNCHANGED <<store, c_stored, c_last,
                   fetchVars, syncVars, listVars, limVars, gateVars, normVars, webVars,
                   backVars, scoreVars, sharedVars>>

\* lines 344-354: one pass of the loop over the records
ProcessRecord(ai, st) ==
    /\ cpc = "records"
    /\ c_idx <= Len(c_batch)
    /\ LET m == c_batch[c_idx]
           success == process_single_record(m, ai, st)
       IN  /\ c_results' = Append(c_results, success)
           /\ IF success
              THEN /\ store' = UpdateOneUpsert(store, KeyOf(m),
                                               [key |-> KeyOf(m), fields |-> m.fields])
                   /\ c_stored' = [c_stored EXCEPT ![m.id] = IF @ < 2 THEN @ + 1 ELSE @]
                   /\ c_last' = [c_last EXCEPT ![KeyOf(m)] = m.id]
              ELSE UNCHANGED <<store, c_stored, c_last>>
           /\ IF RecordFailed(success)
              THEN /\ batch_item_failures' = Append(batch_item_failures, m.id)
                   /\ UNCHANGED successful_count
              ELSE /\ successful_count' = successful_count + 1
                   /\ UNCHANGED batch_item_failures
    /\ c_idx' = c_idx + 1
    /\ UNCHANGED <<cpc, c_invocations, c_batch, c_response,
                   fetchVars, syncVars, listVars, limVars, gateVars, normVars, webVars,
                   backVars, scoreVars, sharedVars>>

\* lines 357-376: the response
Respond200 ==
    /\ cpc = "records"
    /\ c_idx > Len(c_batch)
    /\ cpc' = "done"
    /\ c_response' = [kind |-> "processed",
                      statusCode |-> IF successful_count > 0 THEN 200 ELSE 500,
                      failures |-> batch_item_failures,
                      has_failures |-> batch_item_failures # <<>>]
    /\ UNCHANGED <<c_invocations, c_batch, c_idx, batch_item_failures, successful_count,
                   c_results, store, c_stored, c_last,
                   fetchVars, syncVars, listVars, limVars, gateVars, normVars, webVars,
                   backVars, scoreVars, sharedVars>>

ConsNext ==
    \/ \E batch \in Batches, ping \in PingOutcomes : Invoke(batch, ping)
    \/ \E ai \in AiOutcomes, st \in StoreOutcomes : ProcessRecord(ai, st)
    \/ Respond200

ConsIdle ==
    /\ cpc = "idle"
    /\ c_invocations = 0
    /\ c_batch = <<>>
    /\ c_idx = 0
    /\ batch_item_failures = <<>>
    /\ successful_count = 0
    /\ c_results = <<>>
    /\ c_response = NoResponse
    /\ store = <<>>
    /\ c_stored = [id \in MessageIds |-> 0]
    /\ c_last = [k \in IssueKeys |-> ""]

-----------------------------------------------------------------------------
(* One page request of the project listing: fetch_projects under its       *)
(* backoff.on_exception decorator (fetch_projects.py, lines 65-130).  The   *)
(* decorator calls the function again after an exception of one of the     *)
(* listed types unless giveup(e) holds or max_tries calls were made.        *)

max_tries == 5
factor == 2

\* What the provider does with one request: an HTTP status, or the
\* connection fails, the request times out, or something else raises.
ProviderAnswers ==
    {[kind |-> "status", status |-> c] :
        c \in {200, 400, 401, 403, 404, 429, 500, 503}}
    \cup {[kind |-> k, status |-> 0] :
            k \in {"ClientConnectionError", "TimeoutError", "Exception"}}

Exc(type, status_code) == [type |-> type, status_code |-> status_code]
NoExc == Exc("", 0)

\* Lines 91-130: the outcome of one call; type "" when it returns the page.
RaisedByFetchProjects(answer) ==
    IF answer.kind # "status" THEN Exc(answer.kind, 0)
    ELSE IF answer.status < 400 THEN NoExc
    ELSE IF answer.status = 401 THEN Exc("AuthenticationError", 401)
    ELSE IF answer.status = 403 THEN Exc("PermissionError", 403)
    ELSE Exc("JiraAPIError", answer.status)

\* Line 71: the exception types the decorator retries on.
RetriedTypes ==
    {"ClientConnectionError", "ClientResponseError", "TimeoutError", "JiraAPIError"}

\* Lines 65-66.
is_rate_limit_error(e) == e.type = "JiraAPIError" /\ e.status_code = 429

\* Line 75.
giveup(e) == IF e.type = "JiraAPIError" THEN ~is_rate_limit_error(e) ELSE FALSE

RECURSIVE Pow2(_)
Pow2(n) == IF n = 0 THEN 1 ELSE 2 * Pow2(n - 1)

\* backoff.expo with factor = 2: 2, 4, 8, 16 seconds before the 2nd, 3rd,
\* 4th and 5th call; the jitter sleeps at most that long.
ExpoWait(tries) == factor * Pow2(tries - 1)

BackInit ==
    /\ bpc = "attempt"
    /\ b_tries = 0
    /\ b_attempts = <<>>
    /\ b_waits = <<>>
    /\ b_result = NoExc

\* One call of fetch_projects and what the decorator does with its outcome.
BackAttempt(answer) ==
    /\ bpc = "attempt"
    /\ b_tries' = b_tries + 1
    /\ b_attempts' = Append(b_attempts, answer)
    /\ LET e == RaisedByFetchProjects(answer)
       IN  IF e = NoExc
           THEN /\ bpc' = "done" /\ b_result' = Exc("page", answer.status)
                /\ b_waits' = b_waits
           ELSE IF \/ e.type \notin RetriedTypes
                   \/ giveup(e)
                   \/ b_tries' = max_tries
           THEN /\ bpc' = "done" /\ b_result' = e
                /\ b_waits' = b_waits
           ELSE /\ bpc' = "sleep" /\ b_result' = b_result
                /\ b_waits' = Append(b_waits, ExpoWait(b_tries'))
    /\ UNCHANGED <<fetchVars, syncVars, listVars, limVars, gateVars, normVars,
                   webVars, consVars, scoreVars, sharedVars>>

\* The sleep between two calls is over.
BackSleep ==
    /\ bpc = "sleep"
    /\ bpc' = "attempt"
    /\ UNCHANGED <<b_tries, b_attempts, b_waits, b_result,
                   fetchVars, syncVars, listVars, limVars, gateVars, normVars,
                   webVars, consVars, scoreVars, sharedVars>>

BackNext ==
    \/ \E answer \in ProviderAnswers : BackAttempt(answer)
    \/ BackSleep

BackIdle ==
    /\ bpc = "idle"
    /\ b_tries = 0
    /\ b_attempts = <<>>
    /\ b_waits = <<>>
    /\ b_result = NoExc

-----------------------------------------------------------------------------
(* One queue record through process_single_record (app.py, lines 248-310), *)
(* attempt by attempt: get_ai_predictions_with_retry (lines 167-207) and    *)
(* store_document_with_retry (lines 209-246).                               *)

ScoringMaxRetries == 3
MaxRecords == 2

\* A queue record whose body, when it is JSON, carries the user_id of the
\* sync run or webhook that published it (aws_fetch_issue.py, line 590).
QueueRecord(id, body, key, fields, user_id) ==
    [id |-> id, body |-> body, key |-> key, fields |-> fields, user_id |-> user_id]

ScoringRecords ==
    {QueueRecord("m1", "json", "K1", "v1", "u1"),
     QueueRecord("m2", "json", "", "v2", "u1"),
     QueueRecord("m3", "json", "K1", "v2", "u2"),
     QueueRecord("m4", "empty", "", "", ""),
     QueueRecord("m5", "bad_json", "", "", "")}

\* Lines 285-288: the document is the body with the prediction added.
DocumentOf(rec) == [key |-> KeyOf(rec), fields |-> rec.fields, user_id |-> rec.user_id]

\* One call of the scoring API: a valid prediction, an APIError, a reply
\* that AiPrediction rejects, or any other exception.
AiAttemptOutcomes == {"ok", "APIError", "ValidationError", "Exception"}
StoreAttemptOutcomes == {"ok", "OperationFailure", "Exception"}

ScoreResult(success, error) == [success |-> success, error |-> error]

ScoreInit ==
    /\ scpc = "parse"
    /\ sc_record \in ScoringRecords
    /\ sc_ai_attempts = <<>>
    /\ sc_store_attempts = <<>>
    /\ sc_written = <<>>
    /\ sc_result = ScoreResult(FALSE, "None")
    /\ sc_done = <<>>

\* Lines 266-274: the body is read and parsed.
ScoreParse ==
    /\ scpc = "parse"
    /\ IF sc_record.body = "empty"
       THEN scpc' = "done" /\ sc_result' = ScoreResult(FALSE, "Empty message body")
       ELSE IF sc_record.body = "bad_json"
       THEN scpc' = "done" /\ sc_result' = ScoreResult(FALSE, "JSON decode error")
       ELSE scpc' = "ai" /\ sc_result' = sc_result
    /\ UNCHANGED <<sc_record, sc_ai_attempts, sc_store_attempts, sc_written, sc_done,
                   fetchVars, syncVars, listVars, limVars, gateVars, normVars,
                   webVars, consVars, backVars, sharedVars>>

\* The variant in which an invalid prediction is taken as a prediction.
AcceptsAnyReply(o) == o \in {"ok", "ValidationError"}

\* Lines 187-190: the reply is a prediction when AiPrediction validates it.
IsPrediction(o) == o = "ok"

\* Lines 177-207 and 278-282: one turn of the loop of
\* get_ai_predictions_with_retry; None ends the record as failed.
ScoreAiAttempt(o) ==
    /\ scpc = "ai"
    /\ Len(sc_ai_attempts) < ScoringMaxRetries
    /\ sc_ai_attempts' = Append(sc_ai_attempts, o)
    /\ IF IsPrediction(o)
       THEN scpc' = "store" /\ sc_result' = sc_result
       ELSE IF o = "APIError" /\ Len(sc_ai_attempts') < ScoringMaxRetries
       THEN scpc' = "ai" /\ sc_result' = sc_result
       ELSE /\ scpc' = "done"
            /\ sc_result' = ScoreResult(FALSE, "Failed to get AI predictions after retries")
    /\ UNCHANGED <<sc_record, sc_store_attempts, sc_written, sc_done,
                   fetchVars, syncVars, listVars, limVars, gateVars, normVars,
                   webVars, consVars, backVars, sharedVars>>

\* Lines 220-246 and 294-299: one turn of the loop of
\* store_document_with_retry.
ScoreStoreAttempt(o) ==
    /\ scpc = "store"
    /\ Len(sc_store_attempts) < ScoringMaxRetries
    /\ sc_store_attempts' = Append(sc_store_attempts, o)
    /\ IF o = "ok"
       THEN /\ scpc' = "done"
            /\ sc_written' = UpdateOneUpsert(sc_written, KeyOf(sc_record),
                                             DocumentOf(sc_record))
            /\ sc_result' = ScoreResult(TRUE, "None")
       ELSE IF o = "OperationFailure" /\ Len(sc_store_attempts') < ScoringMaxRetries
       THEN scpc' = "store" /\ UNCHANGED <<sc_written, sc_result>>
       ELSE /\ scpc' = "done"
            /\ sc_result' = ScoreResult(FALSE, "Failed to store document after retries")
            /\ UNCHANGED sc_written
    /\ UNCHANGED <<sc_record, sc_ai_attempts, sc_done,
                   fetchVars, syncVars, listVars, limVars, gateVars, normVars,
                   webVars, consVars, backVars, sharedVars>>

\* lambda_handler, lines 344-346: the next record of the batch, or of a
\* later invocation; the store keeps what was written.
ScoreNextRecord(rec) ==
    /\ scpc = "done"
    /\ Len(sc_done) + 1 < MaxRecords
    /\ sc_done' = Append(sc_done, [record |-> sc_record, success |-> sc_result.success])
    /\ sc_record' = rec
    /\ scpc' = "parse"
    /\ sc_ai_attempts' = <<>>
    /\ sc_store_attempts' = <<>>
    /\ sc_result' = ScoreResult(FALSE, "None")
    /\ UNCHANGED <<sc_written,
                   fetchVars, syncVars, listVars, limVars, gateVars, normVars,
                   webVars, consVars, backVars, sharedVars>>

ScoreNext ==
    \/ ScoreParse
    \/ \E rec \in ScoringRecords : ScoreNextRecord(rec)
    \/ \E o \in AiAttemptOutcomes : ScoreAiAttempt(o)
    \/ \E o \in StoreAttemptOutcomes : ScoreStoreAttempt(o)

ScoreIdle ==
    /\ scpc = "idle"
    /\ sc_record = QueueRecord("", "empty", "", "", "")
    /\ sc_ai_attempts = <<>>
    /\ sc_store_attempts = <<>>
    /\ sc_written = <<>>
    /\ sc_result = ScoreResult(FALSE, "None")
    /\ sc_done = <<>>

-----------------------------------------------------------------------------
(* Two sync runs in one process, started for two credential sets by two     *)
(* calls of connect_and_sync_jira (main.py, line 221), and the module-level *)
(* _session of aws_fetch_issue.py that they share.  A run is named by its   *)
(* credentials; each walks one project of pages_left pages.                 *)

MaxPagesPerRun == 2

Runs == {"A", "B"}

SessionIsOpen(id) == id # 0 /\ ~sessions[id].closed

Request(run, kind, auth, failed) ==
    [run |-> run, kind |-> kind, auth |-> auth, failed |-> failed]

SharedInit ==
    /\ rpc = [r \in Runs |-> "team_field"]
    /\ pages_left \in [Runs -> 0..MaxPagesPerRun]
    /\ session = [r \in Runs |-> 0]
    /\ shared_session = 0
    /\ sessions = <<>>
    /\ requests = <<>>

\* get_team_field_id, lines 397-416: get_session(auth, base_url) returns the
\* open session if there is one and the request goes out on it; otherwise
\* building a session with the URL as its headers raises and None is returned.
SharedTeamField(r) ==
    /\ rpc[r] = "team_field"
    /\ rpc' = [rpc EXCEPT ![r] = "listing"]
    /\ requests' = IF SessionIsOpen(shared_session)
                   THEN Append(requests,
                            Request(r, "field", sessions[shared_session].auth, FALSE))
                   ELSE requests
    /\ UNCHANGED <<pages_left, session, shared_session, sessions,
                   fetchVars, syncVars, listVars, limVars, gateVars, normVars,
                   webVars, consVars, backVars, scoreVars>>

\* fetch_projects (fetch_projects.py, line 93): a session of its own, built
\* with the run's auth.  No project: the run goes to its finally block.
SharedListing(r) ==
    /\ rpc[r] = "listing"
    /\ requests' = Append(requests, Request(r, "project/search", r, FALSE))
    /\ rpc' = [rpc EXCEPT ![r] = IF pages_left[r] = 0 THEN "finally" ELSE "get_session"]
    /\ UNCHANGED <<pages_left, session, shared_session, sessions,
                   fetchVars, syncVars, listVars, limVars, gateVars, normVars,
                   webVars, consVars, backVars, scoreVars>>

\* The variant in which every run builds a session of its own.
OwnSession(id) == FALSE

\* get_session, line 94: the session is kept unless
\* _session is None or _session.closed
ReusesSession(id) == SessionIsOpen(id)

\* fetch_issues_for_project, line 270: session = await get_session(auth, headers)
SharedGetSession(r) ==
    /\ rpc[r] = "get_session"
    /\ IF ReusesSession(shared_session)
       THEN /\ session' = [session EXCEPT ![r] = shared_session]
            /\ UNCHANGED <<shared_session, sessions>>
       ELSE /\ sessions' = Append(sessions, [auth |-> r, closed |-> FALSE])
            /\ shared_session' = Len(sessions')
            /\ session' = [session EXCEPT ![r] = shared_session']
    /\ rpc' = [rpc EXCEPT ![r] = "send"]
    /\ UNCHANGED <<pages_left, requests,
                   fetchVars, syncVars, listVars, limVars, gateVars, normVars,
                   webVars, consVars, backVars, scoreVars>>

\* Lines 273-291: after the gate and the throttle's sleep, session.get on
\* the session the call holds.  On a closed session every attempt raises;
\* the call returns the empty result and the project ends (line 486).
SharedSend(r) ==
    /\ rpc[r] = "send"
    /\ IF sessions[session[r]].closed
       THEN /\ requests' = Append(requests,
                               Request(r, "search", sessions[session[r]].auth, TRUE))
            /\ rpc' = [rpc EXCEPT ![r] = "finally"]
       ELSE /\ requests' = requests
            /\ rpc' = [rpc EXCEPT ![r] = "in_flight"]
    /\ UNCHANGED <<pages_left, session, shared_session, sessions,
                   fetchVars, syncVars, listVars, limVars, gateVars, normVars,
                   webVars, consVars, backVars, scoreVars>>

\* The response of a request in flight; it is lost when the session was
\* closed meanwhile, and the retries meet the closed session.
SharedRespond(r) ==
    /\ rpc[r] = "in_flight"
    /\ IF sessions[session[r]].closed
       THEN /\ requests' = Append(requests,
                               Request(r, "search", sessions[session[r]].auth, TRUE))
            /\ rpc' = [rpc EXCEPT ![r] = "finally"]
            /\ pages_left' = pages_left
       ELSE /\ requests' = Append(requests,
                               Request(r, "search", sessions[session[r]].auth, FALSE))
            /\ pages_left' = [pages_left EXCEPT ![r] = @ - 1]
            /\ rpc' = [rpc EXCEPT ![r] =
                          IF pages_left'[r] = 0 THEN "finally" ELSE "get_session"]
    /\ UNCHANGED <<session, shared_session, sessions,
                   fetchVars, syncVars, listVars, limVars, gateVars, normVars,
                   webVars, consVars, backVars, scoreVars>>

\* close_session (lines 141-146) in the finally block of process_all_issues
\* (line 624).
SharedCloseSession(r) ==
    /\ rpc[r] = "finally"
    /\ rpc' = [rpc EXCEPT ![r] = "done"]
    /\ IF SessionIsOpen(shared_session)
       THEN /\ sessions' = [sessions EXCEPT ![shared_session].closed = TRUE]
            /\ shared_session' = 0
       ELSE UNCHANGED <<sessions, shared_session>>
    /\ UNCHANGED <<pages_left, session, requests,
                   fetchVars, syncVars, listVars, limVars, gateVars, normVars,
                   webVars, consVars, backVars, scoreVars>>

SharedNext ==
    \E r \in Runs :
        \/ SharedTeamField(r)
        \/ SharedListing(r)
        \/ SharedGetSession(r)
        \/ SharedSend(r)
        \/ SharedRespond(r)
        \/ SharedCloseSession(r)

SharedIdle ==
    /\ rpc = [r \in Runs |-> "idle"]
    /\ pages_left = [r \in Runs |-> 0]
    /\ session = [r \in Runs |-> 0]
    /\ shared_session = 0
    /\ sessions = <<>>
    /\ requests = <<>>

ExtIdle == WebIdle /\ ConsIdle /\ BackIdle /\ ScoreIdle /\ SharedIdle

\* One call fetch_all_project_details(user_id, db_collection).
InitListing ==
    /\ ListInit
    /\ LimiterIdle
    /\ GateIdle
    /\ NormIdle
    /\ ExtIdle
    /\ user_id_valid \in BOOLEAN
    /\ user_document \in UserDocuments
    /\ sqs_client_ok = TRUE
    /\ SyncNotRunning
    /\ FetchIdle

SpecListing == InitListing /\ [][ListNext]_vars

-----------------------------------------------------------------------------
InitFetch == FetchInit /\ SyncIdle /\ ListIdle /\ LimiterIdle /\ GateIdle /\ NormIdle /\ ExtIdle

SpecFetch == InitFetch /\ [][FetchNext]_vars

\* The call runs in one coroutine: once started, its next step is taken.
SpecFetchLive == SpecFetch /\ WF_vars(FetchNext)

Init == SyncInit /\ FetchIdle /\ ListIdle /\ LimiterIdle /\ GateIdle /\ NormIdle /\ ExtIdle

Next == SyncNext

Spec == Init /\ [][Next]_vars

\* Both paginated walks: a sync run, or one call of the project listing.
InitPaging == Init \/ InitListing

PagingNext == SyncNext \/ ListNext

SpecPaging == InitPaging /\ [][PagingNext]_vars

\* Concurrent callers of fetch_issues_for_project at the throttle.
InitLimiter == LimiterInit /\ FetchIdle /\ SyncIdle /\ ListIdle /\ GateIdle /\ NormIdle /\ ExtIdle

SpecLimiter == InitLimiter /\ [][LimiterNext]_vars

\* Concurrent sync runs at the concurrency gate.
InitGate == GateInit /\ FetchIdle /\ SyncIdle /\ ListIdle /\ LimiterIdle /\ NormIdle /\ ExtIdle

SpecGate == InitGate /\ [][GateNext]_vars

\* The normalisation of one raw issue.
InitNormalize ==
    NormInit /\ FetchIdle /\ SyncIdle /\ ListIdle /\ LimiterIdle /\ GateIdle /\ ExtIdle

SpecNormalize == InitNormalize /\ [][NormNext]_vars

\* One webhook, posted to the endpoint or handed to handle_webhook.
InitWebhook ==
    /\ WebInit /\ FetchIdle /\ SyncIdle /\ ListIdle /\ LimiterIdle /\ GateIdle /\ NormIdle
    /\ ConsIdle /\ BackIdle /\ ScoreIdle /\ SharedIdle

SpecWebhook == InitWebhook /\ [][WebNext]_vars

\* Invocations of the scoring consumer on batches of queue records.
InitConsumer ==
    /\ ConsInit /\ FetchIdle /\ SyncIdle /\ ListIdle /\ LimiterIdle /\ GateIdle /\ NormIdle
    /\ WebIdle /\ BackIdle /\ ScoreIdle /\ SharedIdle

SpecConsumer == InitConsumer /\ [][ConsNext]_vars

\* One decorated call of fetch_projects.
InitBackoff ==
    /\ BackInit /\ FetchIdle /\ SyncIdle /\ ListIdle /\ LimiterIdle /\ GateIdle /\ NormIdle
    /\ WebIdle /\ ConsIdle /\ ScoreIdle /\ SharedIdle

SpecBackoff == InitBackoff /\ [][BackNext]_vars

\* One record through process_single_record.
InitScoring ==
    /\ ScoreInit /\ FetchIdle /\ SyncIdle /\ ListIdle /\ LimiterIdle /\ GateIdle /\ NormIdle
    /\ WebIdle /\ ConsIdle /\ BackIdle /\ SharedIdle

SpecScoring == InitScoring /\ [][ScoreNext]_vars

\* Two concurrent sync runs on the shared session.
InitShared ==
    /\ SharedInit /\ FetchIdle /\ SyncIdle /\ ListIdle /\ LimiterIdle /\ GateIdle /\ NormIdle
    /\ WebIdle /\ ConsIdle /\ BackIdle /\ ScoreIdle

SpecShared == InitShared /\ [][SharedNext]_vars

-----------------------------------------------------------------------------
(* Properties of fetch_issues_for_project, checked under SpecFetch.         *)

IsStatus(l, st) == l.kind = "response" /\ l.status = st
IsOk200(l) == IsStatus(l, 200) /\ l.json_ok
Is429(l) == IsStatus(l, 429)
IsRetryableFailure(l) ==
    \/ l.kind \in {"ClientConnectionError", "TimeoutError"}
    \/ l.kind = "response" /\ l.status >= 500
IsClientError(l) ==
    l.kind = "response" /\ l.status >= 400 /\ l.status <= 499 /\ l.status # 429

Count(P(_), seq) == Cardinality({i \in 1..Len(seq) : P(seq[i])})

Min(a, b) == IF a < b THEN a ELSE b

\* The trace holds connection errors, timeouts and responses only, each 429
\* with a Retry-After that int() accepts and each 200 with a JSON body (no
\* exception of another kind was raised).
OnlyNamedOutcomes ==
    \A i \in 1..Len(trace) :
        /\ trace[i].kind # "Exception"
        /\ trace[i].json_ok
        /\ Is429(trace[i]) => trace[i].retry_after_ok

ReturnedPayload ==
    /\ fpc = "returned"
    /\ fret = [via |-> "payload", value |-> last_outcome.body]
    /\ IsOk200(last_outcome)

ReturnedEmpty ==
    /\ fpc = "returned"
    /\ fret.via \in {"empty", "no_credentials"}
    /\ fret.value = EmptyResult

\* C2: connection errors, timeouts and responses >= 500 share one budget of
\* MAX_RETRIES attempts; the k-th of them is followed by a sleep of
\* BASE_RETRY_DELAY * 2^(k-1) while attempts remain, and the third ends the
\* call with the empty result.  For the responses 500, 500, 200 the call
\* returns the 200 payload on the third request, and the second delay is at
\* least twice the first.
C2_RetryBudgetAndBackoff ==
    /\ OnlyNamedOutcomes =>
        /\ attempt = Count(IsRetryableFailure, trace)
        /\ attempt <= MAX_RETRIES
        /\ (attempt = MAX_RETRIES => ReturnedEmpty)
        /\ Len(backoffs) = Min(attempt, MAX_RETRIES - 1)
        /\ \A k \in 1..Len(backoffs) : backoffs[k] = BASE_RETRY_DELAY * 2 ^ (k - 1)
    /\ (/\ Len(trace) = 3
        /\ IsStatus(trace[1], 500) /\ IsStatus(trace[2], 500) /\ IsOk200(trace[3]))
       => /\ ReturnedPayload
          /\ Len(backoffs) = 2
          /\ backoffs[2] >= 2 * backoffs[1]

C2_Witness ==
    /\ Len(trace) = 3
    /\ IsStatus(trace[1], 500) /\ IsStatus(trace[2], 500) /\ IsOk200(trace[3])
    /\ ReturnedPayload

C4_RateLimitOwnBudget ==
    (/\ fpc \in {"loop", "returned", "raised"}
     /\ creds_ok
     /\ \A i \in 1..Len(trace) : Is429(trace[i]) \/ IsRetryableFailure(trace[i])
     /\ Count(Is429, trace) <= RATE_LIMIT_MAX_RETRIES
     /\ Count(IsRetryableFailure, trace) <= MAX_RETRIES - 1)
    => /\ fpc = "loop"
       /\ attempt = Count(IsRetryableFailure, trace)

-----------------------------------------------------------------------------
(* Properties of process_all_issues, checked under Spec.                    *)

CallsOf(p) == SelectSeq(page_calls, LAMBDA c : c.project = p)
HandedOf(p) == Len(SelectSeq(send_calls, LAMBDA c : c.project = p /\ ~c.raised))
ProjectOver(p) == p <= Len(projects_details) /\ p < pidx

\* C1: a project whose endpoint serves pages of 50, 50 and 20 issues with
\* total = 120 is fetched by exactly three page calls, at offsets 0, 50 and
\* 100 with maxResults = 50, and its 120 issues are handed on.
C1_ThreePagesFetched ==
    \A p \in 1..Len(projects_details) :
        (provider.projects[p] = "three_pages" /\ ProjectOver(p)) =>
            /\ Len(CallsOf(p)) = 3
            /\ \A k \in 1..3 :
                  /\ CallsOf(p)[k].startAt = 50 * (k - 1)
                  /\ CallsOf(p)[k].maxResults = 50
            /\ HandedOf(p) = 120

EveryPublishSucceeds ==
    sqs_client_ok
    /\ \A i \in 1..Len(send_calls) : send_calls[i].outcome \in {"sent", "not_reached"}

\* C6: with one project whose fetch fails entirely and one that serves five
\* issues, the run visits the second project and returns sent = 5 when
\* every publish succeeds.
C6_FailedProjectThenFive ==
    (/\ pc = "done"
     /\ provider.listing_ok
     /\ provider.projects = <<"fails_entirely", "five_issues">>
     /\ LoadCredentials(user_id_valid, user_document).ok /\ base_url # <<>>
     /\ EveryPublishSucceeds)
    => /\ result.t = "pair"
       /\ result.sent = 5
       /\ Len(CallsOf(2)) >= 1

\* C7: when the run returns (sent, failed), sent + failed is the number of
\* fetched issues with a fields container, each handed to send_issue_to_sqs
\* exactly once.
C7_CountsCoverFetched ==
    (pc = "done" /\ result.t = "pair") =>
        /\ result.sent + result.failed = fetched_with_fields
        /\ Len(send_calls) = fetched_with_fields
        /\ Len(queue) = result.sent

\* C8: building the record of an issue that has fields never raises.
C8_NormalizeNeverRaises == normalize_errors = 0

\* C9: no call of send_issue_to_sqs raises to its caller, and each makes at
\* most one send attempt.
C9_SendNeverRaises ==
    \A i \in 1..Len(send_calls) :
        ~send_calls[i].raised /\ send_calls[i].sends <= 1

IsEmptyValue(f) == f.t \in {"absent", "null"} \/ f.v = <<>>

CredentialError ==
    \/ ~user_id_valid
    \/ ~user_document.found
    \/ IsEmptyValue(user_document.jira_email)
    \/ IsEmptyValue(user_document.jira_api_key)
    \/ IsEmptyValue(user_document.jira_domain)

\* C10: the run returns None exactly when the identity is invalid or the
\* credential document is missing or incomplete, and a pair otherwise.
C10_NoneIffCredentialError ==
    pc = "done" => (result = ReturnedNone <=> CredentialError)

\* The pages fetched for project p before its k-th page call.
RECURSIVE FetchedBefore(_, _)
FetchedBefore(p, k) ==
    IF k <= 1 THEN 0 ELSE FetchedBefore(p, k - 1) + CallsOf(p)[k - 1].got

\* A page call that failed: fetch_issues_for_project gave up and returned
\* the empty result.
PageFailed(c) == c.exit = "empty"

\* C11: a page call that fails after its retries is the last page call of its
\* project, so its offset is not requested again, and the step that makes it
\* leaves the counters and the published records as they were and moves to
\* the next project.
C11_FailedPageEndsProject ==
    /\ [](\A i \in 1..Len(page_calls) :
             PageFailed(page_calls[i]) =>
                \A j \in (i + 1)..Len(page_calls) :
                    page_calls[j].project # page_calls[i].project)
    /\ [][(Len(page_calls') = Len(page_calls) + 1
           /\ PageFailed(page_calls'[Len(page_calls')]))
          => /\ pc' = "project" /\ pidx' = pidx + 1
             /\ queue' = queue
             /\ total_processed_and_sent' = total_processed_and_sent
             /\ total_failed_to_send' = total_failed_to_send]_vars

\* A project whose second page call failed after a first page was fetched.
C11_Witness ==
    \E p \in 1..Len(projects_details) :
        /\ ProjectOver(p)
        /\ Len(CallsOf(p)) = 2
        /\ CallsOf(p)[1].got > 0
        /\ PageFailed(CallsOf(p)[2])
        /\ CallsOf(p)[2].startAt = CallsOf(p)[1].got

\* C13: the pagination of a project stops when the issues fetched reach the
\* total that its first page reported, or at an empty page: a page that
\* reports another total neither ends the fetch earlier nor prolongs it.
C13_FirstTotalIsThreshold ==
    \A p \in 1..Len(projects_details) :
        (ProjectOver(p) /\ p \notin halted /\ CallsOf(p) # <<>>) =>
            LET calls == CallsOf(p)
                first_total == calls[1].total
            IN  /\ \A k \in 1..(Len(calls) - 1) :
                      FetchedBefore(p, k + 1) < first_total
                /\ \/ calls[Len(calls)].got = 0
                   \/ FetchedBefore(p, Len(calls) + 1) >= first_total

\* C12: a page with zero items is the last page call of its walk whatever
\* total it reports, in the issue loop and in the project listing; when the
\* first page is empty there is exactly one page call and nothing is returned.
C12_EmptyPageEndsPagination ==
    /\ \A i \in 1..Len(page_calls) :
          (page_calls[i].exit = "payload" /\ page_calls[i].got = 0) =>
              /\ pidx > page_calls[i].project
              /\ \A j \in (i + 1)..Len(page_calls) :
                    page_calls[j].project # page_calls[i].project
    /\ \A i \in 1..Len(list_calls) :
          (list_calls[i].kind = "page" /\ list_calls[i].got = 0) =>
              /\ i = Len(list_calls)
              /\ lpc = "returned"
              /\ i = 1 => lret = ReturnedList(<<>>)

\* The project listing answered its first request with no values and
\* total = 50.
C12_Witness ==
    /\ lpc = "returned"
    /\ Len(list_calls) = 1
    /\ list_calls[1].kind = "page" /\ list_calls[1].got = 0
    /\ list_calls[1].total = 50
    /\ lret = ReturnedList(<<>>)

\* C14: any two requests, of one caller or of two, start at least
\* MIN_TIME_BETWEEN_REQUESTS (0.6 s) apart.
C14_RequestsSpaced ==
    \A i, j \in 1..Len(request_starts) :
        i < j => request_starts[j].time - request_starts[i].time
                    >= MIN_TIME_BETWEEN_REQUESTS

\* C15: at most MAX_CONCURRENT_REQUESTS requests to the provider are in
\* flight at any time, over all the sync runs of the process.
C15_InFlightBounded == InFlight <= MAX_CONCURRENT_REQUESTS

-----------------------------------------------------------------------------
(* Properties of the change history analysis and of the record, checked     *)
(* under SpecNormalize.                                                     *)

Parsable(ts) == ts.fmt \in {"frac", "nofrac"}

\* The history has an item that is a status change into st.
EntersStatus(h, st) ==
    \E i \in 1..Len(h.items) :
        h.items[i].mapping /\ h.items[i].field = "status" /\ h.items[i].toString = st

AllItemsMappings(h) == \A i \in 1..Len(h.items) : h.items[i].mapping

WellFormedChangelog(c) ==
    /\ c.kind = "dict"
    /\ c.histories_kind = "list"
    /\ \A k \in 1..Len(c.histories) :
          /\ c.histories[k].mapping
          /\ c.histories[k].items_kind = "list"
          /\ AllItemsMappings(c.histories[k])
          /\ Parsable(c.histories[k].created)

\* C16: on a well-formed changelog, get_days_in_current_status returns the
\* time of the last history (in list order) that has a status item into
\* current_status, and the whole days from that time to now.
C16_MostRecentTransition ==
    (called.days /\ WellFormedChangelog(raw_changelog)) =>
        LET hs == raw_changelog.histories
        IN  \A k \in 1..Len(hs) :
                (/\ EntersStatus(hs[k], asked_status)
                 /\ \A j \in (k + 1)..Len(hs) : ~EntersStatus(hs[j], asked_status))
                => /\ days_result.date = Ts("iso", hs[k].created.t)
                   /\ days_result.days.known
                   /\ days_result.days.n * HoursPerDay <= now_utc - hs[k].created.t
                   /\ now_utc - hs[k].created.t < (days_result.days.n + 1) * HoursPerDay

\* Open -> In Progress at T1 = 10 h, In Progress -> Done at T2 = 40 h, asked
\* about Done at 64 h: (T2, 1 day).
C16_Witness ==
    /\ called.days
    /\ raw_changelog = Changelog("dict", "list", <<OpenToInProgress, InProgressToDone>>)
    /\ asked_status = "Done"
    /\ now_utc = 64
    /\ days_result = [raised |-> FALSE, date |-> Ts("iso", 40), days |-> Days(1)]

\* An entry the scan can use: a mapping with a parsable created time and a
\* list of items holding a status item into st.
UsableEntry(h, st) ==
    /\ h.mapping
    /\ Parsable(h.created)
    /\ h.items_kind = "list"
    /\ EntersStatus(h, st)

\* C17, as it holds: get_days_in_current_status never raises, and it returns
\* (None, "Unknown") whenever the changelog is not a mapping, its histories
\* are not a list, or no entry is usable as a status transition into
\* current_status (a malformed entry does not count as one).
C17_UnknownWithoutUsableEntry ==
    called.days =>
        /\ ~days_result.raised
        /\ (\/ raw_changelog.kind # "dict"
            \/ raw_changelog.histories_kind # "list"
            \/ \A k \in 1..Len(raw_changelog.histories) :
                  ~UsableEntry(raw_changelog.histories[k], asked_status))
           => days_result = NoneUnknown

\* The only transition into the status asked about has an unparsable time.
C17_Witness ==
    /\ called.days
    /\ raw_changelog.kind = "dict" /\ raw_changelog.histories_kind = "list"
    /\ \E k \in 1..Len(raw_changelog.histories) :
          /\ EntersStatus(raw_changelog.histories[k], asked_status)
          /\ raw_changelog.histories[k].created.fmt = "bad"
    /\ days_result = NoneUnknown

Malformed(c) ==
    \/ c.kind # "dict"
    \/ c.histories_kind \notin {"list", "absent"}
    \/ \E k \in 1..Len(c.histories) :
          \/ ~c.histories[k].mapping
          \/ ~Parsable(c.histories[k].created)
          \/ c.histories[k].items_kind # "list"

\* C17, as stated: (None, "Unknown") whenever no entry is a status transition
\* into current_status or the changelog is malformed in any of its entries.
C17_UnknownWheneverMalformed ==
    called.days =>
        /\ ~days_result.raised
        /\ (\/ Malformed(raw_changelog)
            \/ \A k \in 1..Len(raw_changelog.histories) :
                  ~EntersStatus(raw_changelog.histories[k], asked_status))
           => days_result = NoneUnknown

WellFormedForLog(c) ==
    /\ c.kind = "dict"
    /\ c.histories_kind \in {"list", "absent"}
    /\ \A k \in 1..Len(c.histories) :
          /\ c.histories[k].mapping
          /\ c.histories[k].items_kind \in {"list", "absent"}
          /\ AllItemsMappings(c.histories[k])

IsStatusItem(c, k, i) == c.histories[k].items[i].field = "status"

ItemPositions(c) ==
    UNION {{<<k, i>> : i \in 1..Len(c.histories[k].items)} : k \in 1..Len(c.histories)}

Before(q, r) == q[1] < r[1] \/ (q[1] = r[1] /\ q[2] < r[2])

C19_SentinelsNeverNull ==
    record.built =>
        /\ record.assignee.t = "str"
        /\ raw_fields.assignee = "null" => record.assignee = OutStr("Unassigned")
        /\ record.labels.t = "list"
        /\ raw_fields.labels # "list" => record.labels = OutList("")
        /\ raw_fields.duedate \in {"absent", "null"}
              => record.due_date = OutStr("No due date")
        /\ record.due_date.t = "str"
        /\ record.original_estimate.t = "str"
        /\ record.remaining_estimate.t = "str"
        /\ record.time_logged.t = "str"

\* C20: no day count of a built record is negative.
C20_DayCountsNonNegative ==
    record.built =>
        /\ record.update_inactivity_days.t = "int" => record.update_inactivity_days.n >= 0
        /\ record.days_in_current_status.known => record.days_in_current_status.n >= 0

\* C21: the updated timestamp is accepted in both formats, with and without
\* sub-second precision, and the inactivity days are computed from either;
\* only a timestamp in neither format leaves them null; no failure raises.
C21_UpdatedBothFormats ==
    (called.build /\ raw_fields.worklog # "null" /\ raw_changelog = EmptyChangelog) =>
        /\ record.built /\ ~record.raised
        /\ Parsable(raw_fields.updated) <=> record.update_inactivity_days.t = "int"
        /\ Parsable(raw_fields.updated) =>
              LET elapsed == now_utc - raw_fields.updated.t
                  n == record.update_inactivity_days.n
              IN  IF elapsed < 0 THEN n = 0
                  ELSE n * HoursPerDay <= elapsed /\ elapsed < (n + 1) * HoursPerDay

\* C22, as it holds: with a team field id, a mapping gives its name (or
\* "Unnamed team" when it has none), a non-empty list gives the name of its
\* first element ("Unnamed team in list" when that mapping has none, the
\* element's string form when it is not a mapping), a string with a character
\* other than white space gives itself, and every other value, a blank string
\* included, gives "No team assigned"; without a team field id the team is
\* "No team assigned" whatever the payload holds.
C22_TeamByShape ==
    record.built =>
        LET team_info == raw_fields.team
        IN  IF norm_team_field_id = "None" THEN record.team = OutStr("No team assigned")
            ELSE CASE team_info.kind = "dict" -> record.team = OutStr(team_info.text)
                   [] team_info.kind = "dict_no_name" -> record.team = OutStr("Unnamed team")
                   [] team_info.kind = "list" /\ team_info.first = "dict_no_name" ->
                         record.team = OutStr("Unnamed team in list")
                   [] team_info.kind = "list" /\ team_info.first # "dict_no_name" ->
                         record.team = OutStr(team_info.text)
                   [] team_info.kind = "str" /\ team_info.text \notin {"", " "} ->
                         record.team = OutStr(team_info.text)
                   [] OTHER -> record.team = OutStr("No team assigned")

\* A list whose first element is not a mapping gives that element's string.
C22_Witness ==
    /\ record.built
    /\ norm_team_field_id = "customfield_10001"
    /\ raw_fields.team = TeamInfo("list", "other", "Platform")
    /\ record.team = OutStr("Platform")

\* C22, as stated: every non-empty string gives itself.
C22_NonEmptyStringGivesItself ==
    (record.built /\ norm_team_field_id # "None"
        /\ raw_fields.team.kind = "str" /\ raw_fields.team.text # "")
    => record.team = OutStr(raw_fields.team.text)

\* C23: normalising the same raw issue and changelog twice yields identical
\* records, whatever happens between the two calls.
C23_NormalizeTwiceSame ==
    called.again => record_again = record

-----------------------------------------------------------------------------
(* Properties of the webhook path, checked under SpecWebhook.               *)

Unrecognised(data) ==
    data.json = "mapping" /\ EventOf(data) \notin (IssueEvents \cup WorklogEvents)

C25_AlwaysAnswers200 ==
    /\ wpc = "done" /\ w_entry = "direct" => w_status # ""
    /\ wpc = "done" /\ w_entry = "endpoint" =>
          /\ w_raised = ""
          /\ http_status = 200
          /\ http_body_status # ""

-----------------------------------------------------------------------------
(* Properties of the scoring consumer, checked under SpecConsumer.          *)

DocsOf(k) == {i \in 1..Len(store) : store[i].key = k}

MessageOf(id) == CHOOSE m \in Messages : m.id = id

FailedIds(batch, results) ==
    SelectSeq([i \in 1..Len(results) |-> IF results[i] THEN "" ELSE batch[i].id],
              LAMBDA id : id # "")

\* C30: batchItemFailures lists the message id of every record that did not
\* succeed and of no other, successful + failed is the number of records, a
\* failing record does not stop the records after it, and when the store is
\* unreachable at the start every record is listed and none is processed.
C30_PartialBatchFailure ==
    /\ cpc = "records" =>
          /\ Len(c_results) = c_idx - 1
          /\ batch_item_failures = FailedIds(c_batch, c_results)
          /\ successful_count + Len(batch_item_failures) = Len(c_results)
    /\ (cpc = "done" /\ c_response.kind = "processed") =>
          /\ Len(c_results) = Len(c_batch)
          /\ c_response.failures = FailedIds(c_batch, c_results)
          /\ c_response.has_failures <=> (\E i \in 1..Len(c_results) : ~c_results[i])
          /\ successful_count + Len(c_response.failures) = Len(c_batch)
    /\ (cpc = "done" /\ c_response.kind = "unreachable") =>
          /\ c_results = <<>>
          /\ c_response.has_failures
          /\ c_response.failures = [i \in 1..Len(c_batch) |-> c_batch[i].id]

\* A batch whose first record failed and whose second succeeded.
C30_Witness ==
    /\ cpc = "done"
    /\ c_response.kind = "processed"
    /\ Len(c_batch) = 2
    /\ c_results = <<FALSE, TRUE>>
    /\ c_response.failures = <<c_batch[1].id>>
    /\ successful_count = 1

-----------------------------------------------------------------------------
\* The keys of the projects of one fetched page that carry a key and a name.
KeysOfCall(call) ==
    [i \in 1..(IF call.named THEN call.got ELSE call.got - 1) |->
        call.startAt + i]

RECURSIVE KeysOfCalls(_)
KeysOfCalls(calls) ==
    IF calls = <<>> THEN <<>>
    ELSE KeysOfCalls(SubSeq(calls, 1, Len(calls) - 1))
             \o KeysOfCall(calls[Len(calls)])

KeysOf(details) == [i \in 1..Len(details) |-> details[i].key]

IsListingPage(call, got, total) ==
    call.kind = "page" /\ call.named /\ call.got = got /\ call.total = total

C28_FailedPageGivesEmptyList ==
    /\ lret.t \in {"running", "list", "None"}
    /\ \A i \in 1..Len(list_calls) :
          list_calls[i].kind # "page" =>
              /\ i = Len(list_calls)
              /\ lpc = "returned"
              /\ lret = ReturnedList(<<>>)

\* The second page request failed after a first page of 50 projects.
C28_Witness ==
    /\ lpc = "returned"
    /\ Len(list_calls) = 2
    /\ list_calls[1].kind = "page" /\ list_calls[1].got = 50
    /\ list_calls[2].kind = "ClientConnectionError"
    /\ lret = ReturnedList(<<>>)

-----------------------------------------------------------------------------
IsTransient(answer) ==
    \/ answer.kind \in {"ClientConnectionError", "TimeoutError"}
    \/ answer.kind = "status" /\ (answer.status = 429 \/ answer.status >= 500)

IsOtherClientError(answer) ==
    /\ answer.kind = "status"
    /\ answer.status >= 400 /\ answer.status < 500
    /\ answer.status # 429

SurfacedAt(i) ==
    /\ i = Len(b_attempts)
    /\ bpc = "done"
    /\ b_result.type \notin {"", "page"}

\* C29: a page request retries connection errors, timeouts, HTTP 429 and
\* HTTP 5xx with exponential backoff and makes at most 5 attempts; it
\* surfaces 401, 403 and the other 4xx responses at once, so that a first
\* answer of that kind costs exactly one attempt.
C29_TransientRetriedClientErrorSurfaced ==
    /\ b_tries <= 5
    /\ b_tries = Len(b_attempts)
    /\ \A i \in 1..Len(b_attempts) :
          /\ IsTransient(b_attempts[i]) =>
                \/ i = 5 /\ SurfacedAt(i)
                \/ /\ i < 5
                   /\ Len(b_waits) >= i
                   /\ i > 1 => b_waits[i] = 2 * b_waits[i - 1]
          /\ IsOtherClientError(b_attempts[i]) => SurfacedAt(i)

\* The part that the code does: connection errors, timeouts and HTTP 429
\* are retried up to 5 attempts with doubling waits, and every HTTP error
\* status other than 429 is surfaced by the attempt that met it.
C29_RateLimitAndNetworkRetried ==
    /\ b_tries <= 5
    /\ \A i \in 1..Len(b_attempts) :
          /\ (IsTransient(b_attempts[i])
              /\ ~(b_attempts[i].kind = "status" /\ b_attempts[i].status >= 500)) =>
                \/ i = 5 /\ SurfacedAt(i)
                \/ /\ i < 5
                   /\ Len(b_waits) >= i
                   /\ i > 1 => b_waits[i] = 2 * b_waits[i - 1]
          /\ (b_attempts[i].kind = "status" /\ b_attempts[i].status >= 400
              /\ b_attempts[i].status # 429) => SurfacedAt(i)

-----------------------------------------------------------------------------
RECURSIVE ReceivedBy(_, _)
ReceivedBy(calls, n) ==
    IF n = 0 THEN 0 ELSE ReceivedBy(calls, n - 1) + calls[n].got

\* C39: every request of the project listing starts at the number of
\* projects received so far, also after a page shorter than 50, so that a
\* completed listing returns the provider's projects without a gap and
\* without a repeat.
C39_OffsetIsProjectsReceived ==
    /\ \A i \in 1..Len(list_calls) :
          list_calls[i].startAt = ReceivedBy(list_calls, i - 1)
    /\ (lpc = "returned" /\ lret.t = "list"
        /\ \A i \in 1..Len(list_calls) :
              list_calls[i].kind = "page" /\ list_calls[i].named)
          => KeysOf(lret.v) = [k \in 1..Len(lret.v) |-> k]

-----------------------------------------------------------------------------
ScoringGavePrediction ==
    /\ sc_ai_attempts # <<>>
    /\ sc_ai_attempts[Len(sc_ai_attempts)] = "ok"

\* C31: process_single_record writes to the store only after the scoring
\* call returned a valid prediction; a record with an empty or unparseable
\* body, or whose scoring failed (APIError at all MAX_RETRIES attempts, or an
\* invalid prediction, after which there is no further attempt), writes
\* nothing and is reported as failed.
C31_WriteOnlyAfterPrediction ==
    /\ [](/\ sc_store_attempts # <<>> =>
                sc_record.body = "json" /\ ScoringGavePrediction
          /\ (scpc = "done" /\ ~(sc_record.body = "json" /\ ScoringGavePrediction)) =>
                sc_store_attempts = <<>> /\ ~sc_result.success
          /\ Len(sc_ai_attempts) <= ScoringMaxRetries
          /\ \A i \in 1..Len(sc_ai_attempts) :
                /\ sc_ai_attempts[i] # "APIError" => i = Len(sc_ai_attempts)
                /\ (sc_ai_attempts[i] \notin {"ok", "APIError"}
                    \/ (sc_ai_attempts[i] = "APIError" /\ i = ScoringMaxRetries)) =>
                      scpc = "done" /\ ~sc_result.success
          /\ (scpc = "ai" /\ sc_ai_attempts # <<>>) =>
                sc_ai_attempts[Len(sc_ai_attempts)] = "APIError")
    /\ [][sc_written' # sc_written =>
             /\ sc_record.body = "json" /\ ScoringGavePrediction
             /\ sc_store_attempts' # sc_store_attempts]_vars

\* A record whose third scoring call failed with an APIError like the two
\* before it: nothing written, reported as failed.
C31_Witness ==
    /\ scpc = "done"
    /\ sc_record.body = "json"
    /\ sc_ai_attempts = <<"APIError", "APIError", "APIError">>
    /\ sc_store_attempts = <<>>
    /\ sc_written = <<>>
    /\ ~sc_result.success

-----------------------------------------------------------------------------
Retried429(l) == l.kind = "response" /\ l.status = 429
RetriedBefore(n, P(_)) == Cardinality({i \in 1..(n - 1) : P(trace[i])})
Other(l) == ~Retried429(l)

\* C32: a call of fetch_issues_for_project comes to its end, whatever the
\* provider answers, after at most MAX_RETRIES + RATE_LIMIT_MAX_RETRIES = 13
\* requests: at most 10 retried 429 responses, at most 2 other retried
\* failures, and the last request.
C32_TerminatesWithinThirteenRequests ==
    /\ [](/\ Len(trace) <= MAX_RETRIES + RATE_LIMIT_MAX_RETRIES
          /\ Len(trace) <= 13
          /\ RetriedBefore(Len(trace) + 1, Retried429)
                <= RATE_LIMIT_MAX_RETRIES + (IF fpc = "loop" THEN 0 ELSE 1)
          /\ RetriedBefore(Len(trace), Other) <= MAX_RETRIES - 1)
    /\ <>(fpc \in {"returned", "raised"})

\* A call that ended at its thirteenth request.
C32_Witness ==
    /\ fpc = "returned"
    /\ Len(trace) = 13
    /\ RetriedBefore(13, Retried429) = 10

-----------------------------------------------------------------------------
\* What is left of a run, as a natural number: the projects still to walk,
\* within a project the offsets still below the largest offset a walk can
\* reach, within a page the issues still to process.
WalkLeft ==
    IF pc = "page" THEN 4 * (1000 - startAt)
    ELSE 4 * (1000 - startAt) - 1 - iidx

RunLeft ==
    LET n == Len(projects_details)
    IN  CASE pc = "done" -> 0
          [] pc = "project" -> 1 + 5000 * (n + 1 - pidx)
          [] pc \in {"page", "issue"} -> 1 + 5000 * (n - pidx) + WalkLeft
          [] pc = "projects" -> 2 + 5000 * (MaxProjects + 1)
          [] pc = "team_field" -> 3 + 5000 * (MaxProjects + 1)
          [] OTHER -> 4 + 5000 * (MaxProjects + 1)

\* C33: every sync run returns after finitely many page requests.  Between
\* two page calls of one project the offset has grown by the issues of the
\* page, which were at least one, and is still below the total that page
\* reported; and every step of the run leaves less to do than there was.
C33_SyncRunTerminates ==
    /\ [](\A i \in 1..(Len(page_calls) - 1) :
             page_calls[i + 1].project = page_calls[i].project =>
                /\ page_calls[i].got > 0
                /\ page_calls[i + 1].startAt = page_calls[i].startAt + page_calls[i].got
                /\ page_calls[i + 1].startAt < page_calls[i].total)
    /\ [][RunLeft' < RunLeft /\ RunLeft' >= 0]_vars

\* A run that returned after a project whose walk ended at the reported
\* total while the provider had a further page.
C33_Witness ==
    /\ pc = "done"
    /\ result.t = "pair"
    /\ \E i \in 1..(Len(page_calls) - 1) :
          /\ page_calls[i + 1].project = page_calls[i].project
          /\ page_calls[i + 1].startAt + page_calls[i + 1].got = page_calls[i + 1].total
          /\ page_calls[i + 1].total = 3
          /\ \A j \in (i + 2)..Len(page_calls) :
                page_calls[j].project # page_calls[i].project

-----------------------------------------------------------------------------
CompletedOf(p) == SelectSeq(send_calls, LAMBDA c : c.project = p /\ ~c.raised)

-----------------------------------------------------------------------------
\* C35: when two sync runs for two credential sets execute concurrently,
\* every request of a run is authenticated with that run's credentials.
C35_OwnCredentials ==
    \A i \in 1..Len(requests) : requests[i].auth = requests[i].run

\* C36: the teardown of a run never closes the shared session while the
\* other run still has page requests to send on it: no page request of a
\* run fails on a closed session, and no run ends with pages left.
C36_TeardownSparesOtherRun ==
    /\ \A i \in 1..Len(requests) : ~requests[i].failed
    /\ \A r \in Runs : rpc[r] = "done" => pages_left[r] = 0

-----------------------------------------------------------------------------
StoredRecords ==
    {sc_done[i].record : i \in {j \in 1..Len(sc_done) : sc_done[j].success}}
    \cup (IF scpc = "done" /\ sc_result.success THEN {sc_record} ELSE {})

\* C37: the store never lets the issue of one user overwrite that of
\* another: two processed messages with the same issue key and different
\* user_id are held as two documents.
C37_UsersKeptApart ==
    \A a, b \in StoredRecords :
        (KeyOf(a) = KeyOf(b) /\ a.user_id # b.user_id) =>
            \E i, j \in 1..Len(sc_written) :
                /\ i # j
                /\ sc_written[i] = DocumentOf(a)
                /\ sc_written[j] = DocumentOf(b)

-----------------------------------------------------------------------------
(* Properties of the webhook handler's publish, checked under SpecWebhook.  *)

\* main2.py lines 219-241: what handle_webhook hands to _send_data_to_sqs
\* when it reaches the publish.  An issue event hands the record built by
\* _parse_issue_data; a worklog event hands whatever worklog_issue_data
\* returned, which is its error record {"status": "error", "message": ...}
\* when the worklog has no issueId (lines 142-145).
SendArgument(data) ==
    IF EventOf(data) \in IssueEvents THEN "issue_record"
    ELSE IF data.worklog = "with_issue_id" THEN "worklog_record"
    ELSE "error_record"

====
